---------------------------- MODULE Spec2Model ----------------------------
(***************************************************************************)
(* Face-authentication core of face-auth-sso.                              *)
(*                                                                         *)
(* Eight groups of state are modelled, each with a specification of its    *)
(* own over the same variables:                                            *)
(*   SpecMatch    findMatchingFace as a pure function, in the vercel-server*)
(*                implementation (src/utils/db.js) and in the server       *)
(*                implementation (src/server/utils/faceRecognition.js);    *)
(*   SpecCompare  compareFaceDescriptors as a pure function, in the server *)
(*                and in the preloading implementation;                    *)
(*   SpecExtract  loadModels, the descriptor cache and                     *)
(*                extractFaceDescriptor, with calls interleaved at their   *)
(*                awaits;                                                  *)
(*   Spec         the /verify request handler on top of both;              *)
(*   SpecLoad     loadModels and checkModels of the vercel-server, the     *)
(*                server and the preloading implementation                 *)
(*                (src/unnamed/part_003), with the extractFaceDescriptor   *)
(*                of the latter;                                           *)
(*   SpecOauth    a /verify request with any request field, next to        *)
(*                /logout and the admin's delete-all-data;                 *)
(*   SpecToken    /token and /revoke requests next to delete-all-data;     *)
(*   SpecBrowser  the browser's model loader (shared-model-loader.js and   *)
(*                the unified loader of src/unnamed/part_011):             *)
(*                loadFaceApiModels, forceReloadModels and detectFaces     *)
(*                interleaved at their awaits; SpecBrowserFair adds that   *)
(*                every load attempt settles.                              *)
(*                                                                         *)
(* Numbers.  A descriptor component is an integer number of tenths, a      *)
(* threshold T stands for T/10, and a distance is kept as the sum of       *)
(* squared component differences (hundredths), i.e. the square of the      *)
(* Euclidean distance: Math.sqrt is strictly increasing on the sums, so    *)
(* d1 < d2 is decided on the squares, and d < t on sum < T*T.  NaN and      *)
(* Infinity are the two negative sentinels below, compared as JavaScript   *)
(* compares them.                                                          *)
(***************************************************************************)
EXTENDS Integers, Sequences, FiniteSets, TLC

VARIABLES
  \* --- findMatchingFace under test (SpecMatch)
  fmImpl,          \* "vercel" | "server"
  fmTarget,        \* targetDescriptor
  fmProfiles,      \* faceProfiles
  fmThreshold,     \* threshold, in tenths
  fmResult,        \* value returned
  fmDone,          \* the call has returned
  fmScanned,       \* probe: the call went past its first return, into the search
  cmp,             \* compareFaceDescriptors under test (SpecCompare): its
                   \* arguments, its answers in both argument orders, and
                   \* the sums the 4-way and the 8-way unrolled loop reach
  \* --- module state of the face recognition utilities
  impl,                 \* which implementation is deployed:
                        \* "vercel" | "server" | "preload"
  modelsLoaded,
  modelLoadingPromise,  \* 0 for null, else the id of the load it stands for
  lastModelLoadTime,
  now,                  \* Date.now(), in ticks
  pendingLoads,         \* ids of the underlying loads started and not settled
  loadStarts,           \* underlying loads started so far (the invocation counter)
  loadsSettled,         \* underlying loads settled so far
  modelCache,           \* keys of modelCache (server, preload)
  netsLoaded,           \* the faceapi.nets whose loadFromDisk has resolved
  descriptorCache,      \* the Map, as its entries in insertion order
  cacheAccessOrder,     \* the LRU array of the vercel-server implementation
  \* --- one caller per p \in Procs, stepping from await to await
  pc,
  img,                  \* imageBuffer of the call
  awaiting,             \* id of the load promise the caller awaits, 0 if none
  loadOutcome,          \* how that promise settled: "none" | "ok" | "failed"
  result,               \* what extractFaceDescriptor returned
  \* --- the collections and the requests of the /verify handler
  cpuCores,             \* CPU_CORES = max(1, os.cpus().length - 1)
  faceProfileDb,        \* FaceProfile documents, in natural (insertion) order
  userDb,               \* ids of the User documents
  authCodeDb,           \* AuthCode documents
  session,              \* req.session of each caller's browser
  nextUserId,           \* stands for generateRandomString(16): a fresh id
  req,                  \* per caller, the request in progress and its locals
  \* --- the token endpoint and the admin wipe
  tokenDb,              \* Token documents
  tokReq,               \* per caller, its /token request and its locals
  tokenCalls,           \* /token requests made so far
  admin,                \* the delete-all-data request: its position, and
                        \* the number of such requests so far
  exchanges,            \* probe: the /token requests answered with tokens
  \* --- the authorization endpoint
  authz,                \* the last GET /authorize request and its answer
  \* --- the model loader of the browser pages (SpecBrowser)
  bImpl,                \* "shared" (public/js/shared-model-loader.js) |
                        \* "unified" (src/unnamed/part_011)
  fa,                   \* window.FaceAPI
  bodies,               \* the async bodies loadFaceApiModels has started, in
                        \* order: each is one underlying load attempt and
                        \* the promise it stands for
  bpc,                  \* per caller of detectFaces, its position
  bwait,                \* per caller, the promise it awaits (0: one that is
                        \* resolved already)
  bCalls,               \* calls made by the page so far
  \* --- local image storage of the server implementation
  files,                \* the enrollment images on disk, by the userId in
                        \* their name
  tempFilePath,         \* req.session.tempFilePath of each caller's browser,
                        \* 0 when unset
  \* --- probes
  status,               \* what checkModels returned last
  calls,                \* calls made so far
  ranPipeline,          \* the call ran detection and embedding
  returnedFor,          \* per image, the descriptor last returned for it
  returnedAt,           \* per image, the value of cacheEpoch at that return
  cacheEpoch,           \* number of inserts into and clears of the cache so far
  prior                 \* per caller, what had been returned for its image when
                        \* the call began, and cacheEpoch at its cache lookup

fmVars == <<fmImpl, fmTarget, fmProfiles, fmThreshold, fmResult, fmDone, fmScanned, cmp>>
modelVars == <<modelsLoaded, modelLoadingPromise, lastModelLoadTime,
               pendingLoads, loadStarts, loadsSettled, modelCache, netsLoaded>>
cacheVars == <<descriptorCache, cacheAccessOrder>>
procVars == <<pc, img, awaiting, loadOutcome, result>>
probeVars == <<calls, ranPipeline, returnedFor, returnedAt, cacheEpoch, prior>>
exVars == <<impl, now, modelVars, cacheVars, procVars, probeVars>>
dbVars == <<cpuCores, faceProfileDb, userDb, authCodeDb, session, nextUserId, req>>
oauthVars == <<tokenDb, tokReq, tokenCalls, admin, exchanges>>
webVars == <<authz, bImpl, fa, bodies, bpc, bwait, bCalls>>
fileVars == <<files, tempFilePath>>
outerVars == <<fmVars, dbVars, status, oauthVars, webVars, fileVars>>

vars == <<fmVars, exVars, dbVars, status, oauthVars, webVars, fileVars>>

-----------------------------------------------------------------------------
(***************************************************************************)
(* JavaScript numbers as far as the distance code needs them.              *)
(***************************************************************************)
NaN == 0 - 1
Infinity == 0 - 2
IsNum(x) == x >= 0

\* a < b in JavaScript: false as soon as one side is NaN
Lt(a, b) == /\ IsNum(a)
            /\ \/ b = Infinity
               \/ IsNum(b) /\ a < b

\* a + b with NaN absorbing
Plus(a, b) == IF a = NaN \/ b = NaN THEN NaN ELSE a + b

\* a squared difference that counts a component only where t exceeds p
SqDiffOneSided(t, p, j) ==
  IF j + 1 > Len(p) THEN NaN
  ELSE IF t[j + 1] > p[j + 1] THEN (t[j + 1] - p[j + 1]) * (t[j + 1] - p[j + 1])
  ELSE 0

\* Math.pow(t[j] - p[j], 2), j counted from 0; p[j] undefined gives NaN
SqDiff(t, p, j) == IF j + 1 > Len(p) THEN NaN
                   ELSE (t[j + 1] - p[j + 1]) * (t[j + 1] - p[j + 1])

\* distance < threshold  (distance a squared sum, threshold in tenths)
BelowThreshold(d, T) == IsNum(d) /\ T > 0 /\ d < T * T
\* the comparison of the final test turned round
WithinThresholdInverted(d, T) == IsNum(d) /\ T >= 0 /\ d >= T * T
\* distance <= threshold
WithinThreshold(d, T) == IsNum(d) /\ T >= 0 /\ d <= T * T
\* distance < threshold * 0.7
BelowEarlyCut(d, T) == IsNum(d) /\ T > 0 /\ 100 * d < 49 * T * T

\* a descriptor that may be absent (null / undefined)
NoDescriptor == [present |-> FALSE, v |-> <<>>]
Desc(v) == [present |-> TRUE, v |-> v]

NoMatch == [kind |-> "null", match |-> 0, distance |-> NaN]
MatchObject(k, d) == [kind |-> "object", match |-> k, distance |-> d]
BareProfile(k) == [kind |-> "profile", match |-> k, distance |-> NaN]

\* a guard that lets every call through to the search
ReturnsAtOnceNever(target, ps) == FALSE

\* if (!targetDescriptor || !faceProfiles || faceProfiles.length === 0)
\* return null, the first statement of findMatchingFace in both
\* implementations
ReturnsAtOnce(target, ps) == ~target.present \/ Len(ps) = 0

-----------------------------------------------------------------------------
(***************************************************************************)
(* vercel-server findMatchingFace (src/utils/db.js)                        *)
(***************************************************************************)
BATCH_SIZE == 10

\* one pass of the 8-way unrolled loop body, components j .. j+7
RECURSIVE VercelChunk(_, _, _, _)
VercelChunk(t, p, j, i) ==
  IF i = 8 THEN 0
  ELSE Plus(IF j + i < Len(t) THEN SqDiff(t, p, j + i) ELSE 0,
            VercelChunk(t, p, j, i + 1))

RECURSIVE VercelSum(_, _, _)
VercelSum(t, p, j) ==
  IF j >= Len(t) THEN 0
  ELSE Plus(VercelChunk(t, p, j, 0), VercelSum(t, p, j + 8))

VercelDistance(t, p) == VercelSum(t, p, 0)

\* the early-termination test of the inner loop
VercelEarlyReturn(d, T) == BelowEarlyCut(d, T)

\* inner loop over one batch; off is the batch's offset in faceProfiles
RECURSIVE VercelBatch(_, _, _, _, _, _)
VercelBatch(t, batch, off, T, j, acc) ==
  IF acc.ret \/ j > Len(batch) THEN acc
  ELSE LET profile == batch[j] IN
    IF ~profile.faceDescriptor.present
    THEN VercelBatch(t, batch, off, T, j + 1, acc)
    ELSE LET distance == VercelDistance(t, profile.faceDescriptor.v) IN
      IF Lt(distance, acc.bestDistance)
      THEN VercelBatch(t, batch, off, T, j + 1,
                       [ret |-> VercelEarlyReturn(distance, T),
                        bestMatch |-> off + j,
                        bestDistance |-> distance])
      ELSE VercelBatch(t, batch, off, T, j + 1, acc)

Min2(a, b) == IF a <= b THEN a ELSE b

RECURSIVE VercelBatches(_, _, _, _, _)
VercelBatches(t, ps, T, i, acc) ==
  IF acc.ret \/ i >= Len(ps) THEN acc
  ELSE VercelBatches(t, ps, T, i + BATCH_SIZE,
         VercelBatch(t, SubSeq(ps, i + 1, Min2(i + BATCH_SIZE, Len(ps))),
                     i, T, 1, acc))

VercelFindMatchingFace(target, ps, T) ==
  IF ReturnsAtOnce(target, ps) THEN NoMatch
  ELSE LET acc == VercelBatches(target.v, ps, T, 0,
                    [ret |-> FALSE, bestMatch |-> 0, bestDistance |-> Infinity])
       IN IF acc.ret THEN MatchObject(acc.bestMatch, acc.bestDistance)
          ELSE IF WithinThreshold(acc.bestDistance, T)
               THEN MatchObject(acc.bestMatch, acc.bestDistance)
               ELSE NoMatch

-----------------------------------------------------------------------------
(***************************************************************************)
(* server findMatchingFace / findMatchingFaceDirectly                      *)
(* (src/server/utils/faceRecognition.js)                                   *)
(***************************************************************************)
DIRECT_LIMIT == 10

\* an unrolled loop that stops after the last full group of four components
RECURSIVE ServerSumFullBlocks(_, _, _)
ServerSumFullBlocks(t, p, i) ==
  IF i + 4 > Len(t) THEN 0
  ELSE Plus(Plus(Plus(SqDiff(t, p, i), SqDiff(t, p, i + 1)),
                 Plus(SqDiff(t, p, i + 2), SqDiff(t, p, i + 3))),
            ServerSumFullBlocks(t, p, i + 4))

\* the 4-way unrolled loop: diff1 is computed unguarded, diff2..4 guarded
RECURSIVE ServerSum(_, _, _)
ServerSum(t, p, i) ==
  IF i >= Len(t) THEN 0
  ELSE Plus(Plus(Plus(SqDiff(t, p, i),
                      IF i + 1 < Len(t) THEN SqDiff(t, p, i + 1) ELSE 0),
                 Plus(IF i + 2 < Len(t) THEN SqDiff(t, p, i + 2) ELSE 0,
                      IF i + 3 < Len(t) THEN SqDiff(t, p, i + 3) ELSE 0)),
            ServerSum(t, p, i + 4))

ServerDistance(t, p) == ServerSum(t, p, 0)

\* distance < threshold in findMatchingFaceDirectly
ServerAccepts(d, T) == BelowThreshold(d, T)

\* compareFaceDescriptors of the server utilities: false when a descriptor is
\* missing, else the 4-way unrolled sum over d1.length components and
\* distance < threshold
ServerCompareFaceDescriptors(d1, d2, T) ==
  IF ~d1.present \/ ~d2.present THEN FALSE
  ELSE BelowThreshold(ServerSum(d1.v, d2.v, 0), T)

\* compareFaceDescriptors of the preloading utilities: the same with the
\* 8-way unrolled sum, every term guarded
PreloadCompareFaceDescriptors(d1, d2, T) ==
  IF ~d1.present \/ ~d2.present THEN FALSE
  ELSE BelowThreshold(VercelSum(d1.v, d2.v, 0), T)

compareFaceDescriptors(which, d1, d2, T) ==
  IF which = "server" THEN ServerCompareFaceDescriptors(d1, d2, T)
  ELSE PreloadCompareFaceDescriptors(d1, d2, T)

RECURSIVE ServerDirectScan(_, _, _, _, _)
ServerDirectScan(t, ps, T, k, acc) ==
  IF k > Len(ps) THEN acc
  ELSE LET profile == ps[k] IN
    IF ~profile.faceDescriptor.present
    THEN ServerDirectScan(t, ps, T, k + 1, acc)
    ELSE LET distance == ServerDistance(t, profile.faceDescriptor.v) IN
      IF ServerAccepts(distance, T) /\ Lt(distance, acc.bestDistance)
      THEN ServerDirectScan(t, ps, T, k + 1,
                            [bestMatch |-> k, bestDistance |-> distance])
      ELSE ServerDirectScan(t, ps, T, k + 1, acc)

\* match is an index into ps; 0 stands for null
FindMatchingFaceDirectly(t, ps, T) ==
  LET acc == ServerDirectScan(t, ps, T, 1,
               [bestMatch |-> 0, bestDistance |-> Infinity])
  IN IF acc.bestMatch # 0 THEN MatchObject(acc.bestMatch, acc.bestDistance)
     ELSE NoMatch

\* batches.forEach: i is the offset of the batch
RECURSIVE ServerBatches(_, _, _, _, _, _)
ServerBatches(t, ps, T, size, i, acc) ==
  IF i >= Len(ps) THEN acc
  ELSE LET batchResult ==
             FindMatchingFaceDirectly(t,
               SubSeq(ps, i + 1, Min2(i + size, Len(ps))), T)
       IN IF batchResult.kind = "object"
             /\ Lt(batchResult.distance, acc.bestDistance)
          THEN ServerBatches(t, ps, T, size, i + size,
                 [bestMatch |-> i + batchResult.match,
                  bestDistance |-> batchResult.distance])
          ELSE ServerBatches(t, ps, T, size, i + size, acc)

ServerFindMatchingFace(target, ps, T, cores) ==
  IF ReturnsAtOnce(target, ps) THEN NoMatch
  ELSE IF Len(ps) < DIRECT_LIMIT \/ cores <= 1
       THEN FindMatchingFaceDirectly(target.v, ps, T)
       ELSE LET batchSize == (Len(ps) + cores - 1) \div cores
                acc == ServerBatches(target.v, ps, T, batchSize, 0,
                         [bestMatch |-> 0, bestDistance |-> Infinity])
            IN IF acc.bestMatch # 0 THEN BareProfile(acc.bestMatch)
               ELSE NoMatch

-----------------------------------------------------------------------------
(***************************************************************************)
(* Images, cache keys and the detection / embedding pipeline.              *)
(*                                                                         *)
(* An image is its bytes.  The constants of the key functions are scaled   *)
(* to the four-byte images of the model: hashBuffer samples HASH_SAMPLES   *)
(* bytes (100 in the source), the server key is the first KEY_CHARS        *)
(* base64 characters (50 in the source), and the caches hold               *)
(* CACHE_SIZE_LIMIT entries (100 in the source).                           *)
(***************************************************************************)
HASH_SAMPLES == 2
KEY_CHARS == 3
KEY_CHARS_SHORT == 2
CACHE_SIZE_LIMIT == 2
PRELOAD_CACHE_LIMIT == 1

ImgA == <<1, 0, 0, 0>>   \* a face
ImgB == <<1, 0, 0, 1>>   \* the face of another person
ImgN == <<1, 0, 0, 2>>   \* no face
ImgC == <<2, 0, 0, 0>>   \* a face close to ImgA's
ImgD == <<3, 0, 0, 0>>   \* a face far from the others
Images == {ImgA, ImgB, ImgN, ImgC, ImgD}

\* faceapi.detectSingleFace(...).withFaceLandmarks(true).withFaceDescriptor()
\* on the prepared canvases: a fixed function of the image, absent when the
\* detector finds no face
Pipeline(i) ==
  CASE i = ImgA -> Desc(<<0, 0>>)
    [] i = ImgB -> Desc(<<6, 6>>)
    [] i = ImgC -> Desc(<<3, 0>>)
    [] i = ImgD -> Desc(<<9, 9>>)
    [] OTHER    -> NoDescriptor

RECURSIVE XorNat(_, _)
XorNat(a, b) ==
  IF a = 0 THEN b
  ELSE IF b = 0 THEN a
  ELSE 2 * XorNat(a \div 2, b \div 2) + (((a % 2) + (b % 2)) % 2)

\* one round of djb2 on a 32-bit hash kept as <<high, low>> 16-bit halves:
\* ((hash << 5) + hash) ^ byte, truncated to 32 bits by the ^
Djb2Round(h, byte) ==
  LET lo33 == h[2] * 33
      lo == lo33 % 65536
      hi == ((h[1] * 33) + (lo33 \div 65536)) % 65536
  IN <<hi, (lo - (lo % 256)) + XorNat(lo % 256, byte)>>

RECURSIVE Djb2From(_, _, _, _)
Djb2From(data, i, step, h) ==
  IF i >= Len(data) THEN h
  ELSE Djb2From(data, i + step, step, Djb2Round(h, data[i + 1]))

Max2(a, b) == IF a >= b THEN a ELSE b

\* hashBuffer: the radix-36 rendering of the hash is one-to-one, so the key
\* is the 32-bit value itself
HashBuffer(data) ==
  LET totalBytes == Min2(HASH_SAMPLES, Len(data))
      step == Max2(1, Len(data) \div totalBytes)
  IN Djb2From(data, 0, step, <<0, 5381>>)

\* Buffer.toString('base64') as its 6-bit digits, 64 standing for '='
RECURSIVE Base64(_)
Base64(data) ==
  IF Len(data) = 0 THEN <<>>
  ELSE IF Len(data) = 1
    THEN <<data[1] \div 4, (data[1] % 4) * 16, 64, 64>>
  ELSE IF Len(data) = 2
    THEN <<data[1] \div 4, ((data[1] % 4) * 16) + (data[2] \div 16),
           (data[2] % 16) * 4, 64>>
  ELSE <<data[1] \div 4, ((data[1] % 4) * 16) + (data[2] \div 16),
         ((data[2] % 16) * 4) + (data[3] \div 64), data[3] % 64>>
       \o Base64(SubSeq(data, 4, Len(data)))

\* Buffer.from(imageBuffer).toString('base64').slice(0, 50)
ServerCacheKey(data) ==
  LET b64 == Base64(data) IN SubSeq(b64, 1, Min2(KEY_CHARS, Len(b64)))

\* preload: Buffer.from(imageBuffer).toString('base64').slice(0, 32)
PreloadCacheKey(data) ==
  LET b64 == Base64(data) IN SubSeq(b64, 1, Min2(KEY_CHARS_SHORT, Len(b64)))

CacheKey(i) ==
  IF impl = "vercel" THEN HashBuffer(i)
  ELSE IF impl = "server" THEN ServerCacheKey(i)
  ELSE PreloadCacheKey(i)

-----------------------------------------------------------------------------
(***************************************************************************)
(* The Map descriptorCache, as the sequence of its entries in insertion    *)
(* order, and the LRU array cacheAccessOrder.                              *)
(***************************************************************************)
\* a lookup that never finds the key
CacheHasNever(c, k) == FALSE

\* descriptorCache.has(cacheKey)
CacheHas(c, k) == \E n \in 1..Len(c) : c[n].key = k
CacheGet(c, k) == c[CHOOSE n \in 1..Len(c) : c[n].key = k].value
\* Map.set: a present key keeps its place
CacheSet(c, k, v) ==
  IF CacheHas(c, k)
  THEN [n \in 1..Len(c) |-> IF c[n].key = k THEN [key |-> k, value |-> v] ELSE c[n]]
  ELSE Append(c, [key |-> k, value |-> v])
CacheDelete(c, k) == SelectSeq(c, LAMBDA e : e.key # k)

\* an access that only pushes the key
UpdateCacheAccessPushOnly(order, k) == Append(order, k)

UpdateCacheAccess(order, k) == Append(SelectSeq(order, LAMBDA x : x # k), k)

\* the insert of the vercel-server extractFaceDescriptor
VercelInsert(c, order, k, v) ==
  LET full == Len(c) >= CACHE_SIZE_LIMIT
      shifted == IF full /\ Len(order) > 0 THEN Tail(order) ELSE order
      kept == IF full /\ Len(order) > 0 THEN CacheDelete(c, Head(order)) ELSE c
  IN <<CacheSet(kept, k, v), UpdateCacheAccess(shifted, k)>>

\* the insert of the server extractFaceDescriptor
ServerInsert(c, k, v) ==
  LET set == CacheSet(c, k, v)
  IN IF Len(set) > CACHE_SIZE_LIMIT THEN Tail(set) ELSE set

\* the insert of the preload extractFaceDescriptor: the size is tested
\* before the set
PreloadInsert(c, k, v) ==
  CacheSet(IF Len(c) > PRELOAD_CACHE_LIMIT THEN Tail(c) ELSE c, k, v)

-----------------------------------------------------------------------------
(***************************************************************************)
(* loadModels.  The underlying load (the Promise.all over the three nets)  *)
(* is started by the synchronous part of loadModels and settled by the     *)
(* environment; its then / catch / finally handlers run with the settling. *)
(***************************************************************************)
MODEL_VALIDITY_DURATION == 1
MaxLoads == 2
MaxTime == 1
MaxCalls == 4

Procs == {1, 2}

\* models that, once loaded, count as valid whatever their age
ModelsValidForever == modelsLoaded

\* modelsLoaded && (currentTime - lastModelLoadTime) < MODEL_VALIDITY_DURATION
ModelsValid == modelsLoaded /\ (now - lastModelLoadTime) < MODEL_VALIDITY_DURATION

\* a loadModels that does not look at modelLoadingPromise
ReturnsExistingPromiseNever == FALSE

\* if (modelLoadingPromise) return modelLoadingPromise
ReturnsExistingPromise == modelLoadingPromise # 0

\* faceapi.nets: the detector, the landmark model, the embedding model
Detector == "tinyFaceDetector"
Landmarks == "faceLandmark68TinyNet"
Recognition == "faceRecognitionNet"
Nets == {Detector, Landmarks, Recognition}

\* the keys modelCache holds once a load has completed
ModelCacheKeys ==
  IF impl = "server" THEN {"detector", "landmarkNet", "recognitionNet"}
  ELSE IF impl = "preload" THEN {"detector", "landmarks", "recognition"}
  ELSE {}

\* a promise that is settled already
Resolved == 0 - 1

\* preload: if (modelCache.size > 0), the body returns before any net is read
UsesCachedModels == impl = "preload" /\ modelCache # {}

\* which way the synchronous part of loadModels goes
LoadModelsBranch ==
  IF impl = "vercel"
  THEN IF ModelsValid THEN "ready"
       ELSE IF ReturnsExistingPromise THEN "join" ELSE "start"
  ELSE IF ReturnsExistingPromise THEN "join"
       ELSE IF modelsLoaded THEN "ready"
       ELSE IF UsesCachedModels THEN "cached" ELSE "start"

\* loadModels() called by p, up to the promise it returns
LoadModelsCall(p) ==
  LET branch == LoadModelsBranch IN
  /\ branch = "start" => loadStarts < MaxLoads
  /\ IF branch = "ready"
     THEN /\ awaiting' = [awaiting EXCEPT ![p] = 0]
          /\ loadOutcome' = [loadOutcome EXCEPT ![p] = "ok"]
          /\ UNCHANGED modelVars
     ELSE IF branch = "join"
     THEN \* the promise returned is pending, or it is the resolved one the
          \* cached branch left behind
          /\ awaiting' = [awaiting EXCEPT ![p] =
                IF modelLoadingPromise \in pendingLoads THEN modelLoadingPromise ELSE 0]
          /\ loadOutcome' = [loadOutcome EXCEPT ![p] =
                IF modelLoadingPromise \in pendingLoads THEN "none" ELSE "ok"]
          /\ UNCHANGED modelVars
     ELSE IF branch = "cached"
     THEN \* the async body runs to its return: modelsLoaded = true, the
          \* finally clears modelLoadingPromise, and then the assignment
          \* stores the promise of the body, already resolved
          /\ modelsLoaded' = TRUE
          /\ modelLoadingPromise' = Resolved
          /\ awaiting' = [awaiting EXCEPT ![p] = 0]
          /\ loadOutcome' = [loadOutcome EXCEPT ![p] = "ok"]
          /\ UNCHANGED <<lastModelLoadTime, pendingLoads, loadStarts, loadsSettled,
                         modelCache, netsLoaded>>
     ELSE /\ modelLoadingPromise' = loadStarts + 1
          /\ pendingLoads' = pendingLoads \cup {loadStarts + 1}
          /\ loadStarts' = loadStarts + 1
          /\ awaiting' = [awaiting EXCEPT ![p] = loadStarts + 1]
          /\ loadOutcome' = [loadOutcome EXCEPT ![p] = "none"]
          /\ UNCHANGED <<modelsLoaded, lastModelLoadTime, loadsSettled,
                         modelCache, netsLoaded>>

\* the callers awaiting load id learn how it settled
Settle(id, how) ==
  /\ pendingLoads' = pendingLoads \ {id}
  /\ loadsSettled' = loadsSettled + 1
  /\ loadOutcome' = [p \in Procs |->
        IF awaiting[p] = id /\ loadOutcome[p] = "none" THEN how ELSE loadOutcome[p]]
  /\ awaiting' = [p \in Procs |-> IF awaiting[p] = id THEN 0 ELSE awaiting[p]]

\* the three nets loaded: the then handler (vercel), the try body and
\* finally (server, preload)
LoadSucceeds(id) ==
  /\ id \in pendingLoads
  /\ Settle(id, "ok")
  /\ modelsLoaded' = TRUE
  /\ lastModelLoadTime' = IF impl = "vercel" THEN now ELSE lastModelLoadTime
  /\ modelLoadingPromise' = 0
  /\ modelCache' = ModelCacheKeys
  /\ netsLoaded' = Nets
  /\ UNCHANGED <<impl, now, loadStarts, cacheVars, pc, img, result, probeVars, outerVars>>

\* The ways a load fails, each as the set of nets that loaded in it.
\* vercel, server: one Promise.all over the three reads; its rejection does
\* not say which of the other nets loaded and nothing reads it, so none is
\* recorded.  preload: the detector is awaited first, then the other two
\* together; the load fails at the detector, or after it with at most one
\* of the other two loaded.
FailureCases ==
  IF impl = "preload"
  THEN {{}, {Detector}, {Detector, Landmarks}, {Detector, Recognition}}
  ELSE {{}}

\* one of the nets failed: the catch handler (vercel), catch and finally
\* (server, preload).  preload has stored the detector in modelCache by
\* then if the detector loaded.
LoadFails(id, loaded) ==
  /\ id \in pendingLoads
  /\ Settle(id, "failed")
  /\ modelLoadingPromise' = 0
  /\ netsLoaded' = netsLoaded \cup loaded
  /\ modelCache' = IF impl = "preload" /\ Detector \in loaded
                   THEN modelCache \cup {"detector"} ELSE modelCache
  /\ UNCHANGED <<modelsLoaded, lastModelLoadTime>>
  /\ UNCHANGED <<impl, now, loadStarts, cacheVars, pc, img, result, probeVars, outerVars>>

\* time passes; only the vercel-server implementation reads the clock
Tick ==
  /\ impl = "vercel"
  /\ now < MaxTime
  /\ now' = now + 1
  /\ UNCHANGED <<impl, modelVars, cacheVars, procVars, probeVars, outerVars>>

\* probe values of a call that has no earlier return to compare with
NotYet == 0 - 1
NoPrior == [d |-> NoDescriptor, at |-> 0, lookedUpAt |-> NotYet]

\* p is inside a /verify request that has not been answered yet
InRequest(p) == req[p].action # "none" /\ req[p].outcome = "none"
\* p can issue a new call
Free(p) == pc[p] \in {"idle", "returned"} /\ ~InRequest(p)

\* a caller of loadModels alone: server start-up, the warmup endpoint
LoadModelsOnly(p) ==
  /\ Free(p)
  /\ calls < MaxCalls
  /\ calls' = calls + 1
  /\ LoadModelsCall(p)
  /\ pc' = [pc EXCEPT ![p] = "warmup"]
  /\ result' = [result EXCEPT ![p] = [kind |-> "none", d |-> NoDescriptor]]
  /\ ranPipeline' = [ranPipeline EXCEPT ![p] = FALSE]
  /\ prior' = [prior EXCEPT ![p] = NoPrior]
  /\ UNCHANGED <<impl, now, cacheVars, img, returnedFor, returnedAt, cacheEpoch, outerVars>>

LoadModelsReturns(p) ==
  /\ pc[p] = "warmup"
  /\ loadOutcome[p] # "none"
  /\ pc' = [pc EXCEPT ![p] = "returned"]
  /\ result' = [result EXCEPT ![p] =
        [kind |-> IF loadOutcome[p] = "ok" THEN "loaded" ELSE "throw",
         d |-> NoDescriptor]]
  /\ UNCHANGED <<impl, now, modelVars, cacheVars, img, awaiting, loadOutcome,
                 probeVars, outerVars>>

-----------------------------------------------------------------------------
(***************************************************************************)
(* extractFaceDescriptor, one action per stretch between two awaits.       *)
(***************************************************************************)
NoResult == [kind |-> "none", d |-> NoDescriptor]
NullResult == [kind |-> "null", d |-> NoDescriptor]
Threw == [kind |-> "throw", d |-> NoDescriptor]
Returned(d) == [kind |-> "descriptor", d |-> d]

\* probe: a call returns descriptor d for image i with the cache at epoch e
NoteReturn(i, d, e) ==
  /\ returnedFor' = [returnedFor EXCEPT ![i] = d]
  /\ returnedAt' = [returnedAt EXCEPT ![i] = e]

\* the cached descriptor is returned: descriptorCache.get(cacheKey)
CacheHit(p, i) ==
  /\ result' = [result EXCEPT ![p] = Returned(CacheGet(descriptorCache, CacheKey(i)))]
  /\ NoteReturn(i, CacheGet(descriptorCache, CacheKey(i)), cacheEpoch)
  /\ pc' = [pc EXCEPT ![p] = "returned"]

\* the call proper, up to its first await.  vercel: await loadModels().
\* server, preload: the cache is consulted first, loadModels only on a miss.
ExtractCallStep(p, i) ==
  /\ img' = [img EXCEPT ![p] = i]
  /\ ranPipeline' = [ranPipeline EXCEPT ![p] = FALSE]
  /\ prior' = [prior EXCEPT ![p] =
        [d |-> returnedFor[i], at |-> returnedAt[i],
         lookedUpAt |-> IF impl # "vercel" THEN cacheEpoch ELSE NotYet]]
  /\ IF impl # "vercel" /\ CacheHas(descriptorCache, CacheKey(i))
     THEN /\ CacheHit(p, i)
          /\ UNCHANGED <<modelVars, awaiting, loadOutcome, cacheVars, cacheEpoch>>
     ELSE /\ LoadModelsCall(p)
          /\ pc' = [pc EXCEPT ![p] = "awaitLoad"]
          /\ result' = [result EXCEPT ![p] = NoResult]
          /\ UNCHANGED <<cacheVars, returnedFor, returnedAt, cacheEpoch>>

\* loadModels rejected.  vercel: inside the try, the catch returns null.
\* server, preload: outside the try, the rejection leaves
\* extractFaceDescriptor.
AfterLoadFailed(p) ==
  /\ pc[p] = "awaitLoad"
  /\ loadOutcome[p] = "failed"
  /\ result' = [result EXCEPT ![p] = IF impl = "vercel" THEN NullResult ELSE Threw]
  /\ pc' = [pc EXCEPT ![p] = "returned"]
  /\ UNCHANGED <<impl, now, modelVars, cacheVars, img, awaiting, loadOutcome,
                 probeVars>>
  /\ UNCHANGED outerVars

\* loadModels resolved and the vercel cache holds the key
AfterLoadHit(p) ==
  /\ pc[p] = "awaitLoad"
  /\ loadOutcome[p] = "ok"
  /\ impl = "vercel"
  /\ CacheHas(descriptorCache, CacheKey(img[p]))
  /\ CacheHit(p, img[p])
  /\ prior' = [prior EXCEPT ![p].lookedUpAt = cacheEpoch]
  /\ cacheAccessOrder' = UpdateCacheAccess(cacheAccessOrder, CacheKey(img[p]))
  /\ UNCHANGED <<impl, now, modelVars, descriptorCache, img, awaiting, loadOutcome,
                 calls, ranPipeline, cacheEpoch>>
  /\ UNCHANGED outerVars

\* loadModels resolved, no cached descriptor: on to loadImage and detection
AfterLoadMiss(p) ==
  /\ pc[p] = "awaitLoad"
  /\ loadOutcome[p] = "ok"
  /\ impl = "vercel" => ~CacheHas(descriptorCache, CacheKey(img[p]))
  /\ pc' = [pc EXCEPT ![p] = "pipeline"]
  /\ prior' = IF impl = "vercel" THEN [prior EXCEPT ![p].lookedUpAt = cacheEpoch]
              ELSE prior
  /\ UNCHANGED <<impl, now, modelVars, cacheVars, img, awaiting, loadOutcome, result,
                 calls, ranPipeline, returnedFor, returnedAt, cacheEpoch>>
  /\ UNCHANGED outerVars

\* the nets the detection and embedding calls run on: detectSingleFace with
\* withFaceLandmarks and withFaceDescriptor (vercel, server), detectSingleFace
\* and computeFaceDescriptor (preload)
NetsNeeded == IF impl = "preload" THEN {Detector, Recognition} ELSE Nets

\* what detection and embedding give for image i with the nets as they are:
\* a call on a net that is not loaded throws into the catch, which returns
\* null
Extracted(i) == IF NetsNeeded \subseteq netsLoaded THEN Pipeline(i) ELSE NoDescriptor

\* detection found nothing (or no descriptor came out): return null
AfterPipelineNoFace(p) ==
  /\ pc[p] = "pipeline"
  /\ ~Extracted(img[p]).present
  /\ result' = [result EXCEPT ![p] = NullResult]
  /\ ranPipeline' = [ranPipeline EXCEPT ![p] = TRUE]
  /\ pc' = [pc EXCEPT ![p] = "returned"]
  /\ UNCHANGED <<impl, now, modelVars, cacheVars, img, awaiting, loadOutcome,
                 calls, returnedFor, returnedAt, cacheEpoch, prior>>
  /\ UNCHANGED outerVars

\* a descriptor came out: cache it and return it
AfterPipelineDescriptor(p) ==
  /\ pc[p] = "pipeline"
  /\ Extracted(img[p]).present
  /\ LET d == Extracted(img[p])
         k == CacheKey(img[p])
     IN /\ IF impl = "vercel"
           THEN /\ descriptorCache' = VercelInsert(descriptorCache, cacheAccessOrder, k, d)[1]
                /\ cacheAccessOrder' = VercelInsert(descriptorCache, cacheAccessOrder, k, d)[2]
           ELSE /\ descriptorCache' = IF impl = "server"
                                      THEN ServerInsert(descriptorCache, k, d)
                                      ELSE PreloadInsert(descriptorCache, k, d)
                /\ UNCHANGED cacheAccessOrder
        /\ result' = [result EXCEPT ![p] = Returned(d)]
        /\ NoteReturn(img[p], d, cacheEpoch + 1)
  /\ cacheEpoch' = cacheEpoch + 1
  /\ ranPipeline' = [ranPipeline EXCEPT ![p] = TRUE]
  /\ pc' = [pc EXCEPT ![p] = "returned"]
  /\ UNCHANGED <<impl, now, modelVars, img, awaiting, loadOutcome, calls, prior>>
  /\ UNCHANGED outerVars

\* clearDescriptorCache, exported by the server and preload implementations
ClearDescriptorCache ==
  /\ impl # "vercel"
  /\ Len(descriptorCache) > 0
  /\ descriptorCache' = <<>>
  /\ cacheEpoch' = cacheEpoch + 1
  /\ UNCHANGED <<impl, now, modelVars, cacheAccessOrder, procVars, calls,
                 ranPipeline, returnedFor, returnedAt, prior>>
  /\ UNCHANGED outerVars

-----------------------------------------------------------------------------
(***************************************************************************)
(* SpecExtract: callers of loadModels and extractFaceDescriptor.           *)
(***************************************************************************)
ExtractCall(p, i) ==
  /\ Free(p)
  /\ calls < MaxCalls
  /\ calls' = calls + 1
  /\ ExtractCallStep(p, i)
  /\ UNCHANGED <<impl, now, outerVars>>

\* no checkModels call has returned yet; n tells consecutive reports apart
NoStatus == [loaded |-> FALSE, loading |-> FALSE, timeSinceLastLoad |-> NotYet,
             isValid |-> FALSE, lastLoadTime |-> NotYet, n |-> 0]

ModuleLoaded ==
  /\ modelsLoaded = FALSE
  /\ modelLoadingPromise = 0
  /\ lastModelLoadTime = 0
  /\ now = 0
  /\ pendingLoads = {}
  /\ loadStarts = 0
  /\ loadsSettled = 0
  /\ modelCache = {}
  /\ netsLoaded = {}
  /\ status = NoStatus
  /\ descriptorCache = <<>>
  /\ cacheAccessOrder = <<>>
  /\ pc = [p \in Procs |-> "idle"]
  /\ img = [p \in Procs |-> ImgA]
  /\ awaiting = [p \in Procs |-> 0]
  /\ loadOutcome = [p \in Procs |-> "none"]
  /\ result = [p \in Procs |-> NoResult]
  /\ calls = 0
  /\ ranPipeline = [p \in Procs |-> FALSE]
  /\ returnedFor = [i \in Images |-> NoDescriptor]
  /\ returnedAt = [i \in Images |-> 0]
  /\ cacheEpoch = 0
  /\ prior = [p \in Procs |-> NoPrior]

\* the locals of a /verify request: action, clientId and redirectUri of
\* authRequest, faceDescriptor, faceProfiles, matchResult, userId,
\* cloudinaryResult, with the request's number, the users that existed when
\* it arrived, and what became of it
NoRequest == [id |-> 0, usersAtStart |-> {}, action |-> "none",
              clientId |-> "none", redirectUri |-> "none",
              faceDescriptor |-> NoDescriptor,
              faceProfiles |-> <<>>, matchResult |-> NoMatch,
              userId |-> 0, uploaded |-> FALSE, outcome |-> "none",
              status |-> 0, page |-> "none", code |-> 0, marked |-> FALSE]
NoSession == [authenticated |-> FALSE, userId |-> 0, by |-> NoRequest]

DbEmpty ==
  /\ faceProfileDb = <<>>
  /\ userDb = {}
  /\ authCodeDb = {}
  /\ session = [p \in Procs |-> NoSession]
  /\ nextUserId = 1
  /\ req = [p \in Procs |-> NoRequest]

\* no /token request and no delete-all-data request yet
NoCode == [code |-> 0, clientId |-> "none", userId |-> 0, redirectUri |-> "none"]
NoTokenRequest == [id |-> 0, grant |-> "none", code |-> 0, clientId |-> "none",
                   redirectUri |-> "none", authCodeData |-> NoCode,
                   userFound |-> FALSE, outcome |-> "none", status |-> 0]
TokenIdle ==
  /\ tokenDb = {}
  /\ tokReq = [p \in Procs |-> NoTokenRequest]
  /\ tokenCalls = 0
  /\ admin = [pc |-> "idle", wipes |-> 0]
  /\ exchanges = {}

\* no /authorize request yet
NoAuthorize ==
  [n |-> 0, client_id |-> "none", redirect_uri |-> "none", response_type |-> "none",
   answer |-> "none", to |-> "none"]

\* an empty uploads directory and no path in any session
NoFiles ==
  /\ files = {}
  /\ tempFilePath = [p \in Procs |-> 0]

\* window.FaceAPI as the script creates it
FreshFaceAPI ==
  [modelsLoaded |-> FALSE, modelLoadingPromise |-> 0, faceDetectionReady |-> FALSE,
   faceRecognitionReady |-> FALSE, loadRetries |-> 0]

\* a page that has just run the loader script
PageLoaded ==
  /\ fa = FreshFaceAPI
  /\ bodies = <<>>
  /\ bpc = [p \in Procs |-> "idle"]
  /\ bwait = [p \in Procs |-> 0]
  /\ bCalls = 0

OauthIdle == TokenIdle /\ authz = NoAuthorize /\ NoFiles /\ bImpl = "shared" /\ PageLoaded

FindUnused ==
  /\ fmImpl = "vercel"
  /\ fmTarget = NoDescriptor
  /\ fmProfiles = <<>>
  /\ fmThreshold = 6
  /\ fmResult = NoMatch
  /\ fmDone = TRUE
  /\ fmScanned = FALSE

\* no comparison under test
NoComparison ==
  [which |-> "server", d1 |-> NoDescriptor, d2 |-> NoDescriptor, threshold |-> 6,
   forward |-> FALSE, backward |-> FALSE, sum4 |-> NaN, sum8 |-> NaN, done |-> TRUE]

MatchUnused == FindUnused /\ cmp = NoComparison

InitExtract ==
  /\ impl \in {"vercel", "server"}
  /\ ModuleLoaded
  /\ OauthIdle
  /\ MatchUnused
  /\ cpuCores = 1
  /\ DbEmpty

NextExtract ==
  \/ \E p \in Procs, i \in Images : ExtractCall(p, i)
  \/ \E p \in Procs : LoadModelsOnly(p)
  \/ \E p \in Procs : LoadModelsReturns(p)
  \/ \E p \in Procs : AfterLoadFailed(p)
  \/ \E p \in Procs : AfterLoadHit(p)
  \/ \E p \in Procs : AfterLoadMiss(p)
  \/ \E p \in Procs : AfterPipelineNoFace(p)
  \/ \E p \in Procs : AfterPipelineDescriptor(p)
  \/ \E id \in pendingLoads : LoadSucceeds(id)
  \/ \E id \in pendingLoads, loaded \in FailureCases : LoadFails(id, loaded)
  \/ ClearDescriptorCache
  \/ Tick

SpecExtract == InitExtract /\ [][NextExtract]_vars

-----------------------------------------------------------------------------
(***************************************************************************)
(* checkModels of the vercel-server implementation, called by GET /health. *)
(***************************************************************************)
\* a report that calls loaded models valid whatever their age
IsValidReportAnyAge(loaded, timeSinceLastLoad) == loaded

\* isValid: modelsLoaded && (timeSinceLastLoad < MODEL_VALIDITY_DURATION)
IsValidReport(loaded, timeSinceLastLoad) ==
  loaded /\ timeSinceLastLoad < MODEL_VALIDITY_DURATION

\* the object checkModels returns; null is NotYet
CheckModelsReport ==
  LET timeSinceLastLoad == now - lastModelLoadTime
  IN [loaded |-> modelsLoaded,
      loading |-> modelLoadingPromise # 0,
      timeSinceLastLoad |-> IF modelsLoaded THEN timeSinceLastLoad ELSE NotYet,
      isValid |-> IsValidReport(modelsLoaded, timeSinceLastLoad),
      lastLoadTime |-> IF lastModelLoadTime # 0 THEN lastModelLoadTime ELSE NotYet]

CheckModels ==
  /\ impl = "vercel"
  /\ status' = [loaded |-> CheckModelsReport.loaded,
                loading |-> CheckModelsReport.loading,
                timeSinceLastLoad |-> CheckModelsReport.timeSinceLastLoad,
                isValid |-> CheckModelsReport.isValid,
                lastLoadTime |-> CheckModelsReport.lastLoadTime,
                n |-> 1 - status.n]
  /\ UNCHANGED <<fmVars, exVars, dbVars, oauthVars, webVars, fileVars>>

-----------------------------------------------------------------------------
(***************************************************************************)
(* SpecLoad: the three implementations with callers of loadModels, of      *)
(* extractFaceDescriptor and of checkModels.                               *)
(***************************************************************************)
\* the images submitted here: two faces with different cache keys
LoadImages == {ImgA, ImgC}

InitLoad ==
  /\ impl \in {"vercel", "server", "preload"}
  /\ ModuleLoaded
  /\ OauthIdle
  /\ MatchUnused
  /\ cpuCores = 1
  /\ DbEmpty

NextLoad ==
  \/ \E p \in Procs : LoadModelsOnly(p)
  \/ \E p \in Procs : LoadModelsReturns(p)
  \/ \E p \in Procs, i \in LoadImages : ExtractCall(p, i)
  \/ \E p \in Procs : AfterLoadFailed(p)
  \/ \E p \in Procs : AfterLoadHit(p)
  \/ \E p \in Procs : AfterLoadMiss(p)
  \/ \E p \in Procs : AfterPipelineNoFace(p)
  \/ \E p \in Procs : AfterPipelineDescriptor(p)
  \/ \E id \in pendingLoads : LoadSucceeds(id)
  \/ \E id \in pendingLoads, loaded \in FailureCases : LoadFails(id, loaded)
  \/ CheckModels
  \/ Tick

SpecLoad == InitLoad /\ [][NextLoad]_vars

-----------------------------------------------------------------------------
(***************************************************************************)
(* SpecMatch: one call of findMatchingFace on inputs drawn from bounded    *)
(* sets.                                                                   *)
(***************************************************************************)
MaxCandidates == 3

\* query descriptors, and the descriptors an enrolled profile may carry:
\* at squared distances 0, 9, 18, 36, 45 from <<0, 0>>, plus a missing one,
\* an empty array (the schema's default) and one shorter than the query
Targets == {<<0, 0>>, <<3, 3>>}
GoodDescriptors == {<<0, 0>>, <<3, 0>>, <<3, 3>>, <<6, 0>>, <<6, 3>>}
CandidateDescriptors ==
  {Desc(v) : v \in GoodDescriptors \cup {<<>>, <<0>>}} \cup {NoDescriptor}
Thresholds == {3, 6}
CoreCounts == {1, 2, 3}

\* the profile list carrying the descriptors ds, userId = position
ProfilesOf(ds) == [k \in 1..Len(ds) |-> [userId |-> k, faceDescriptor |-> ds[k]]]

RECURSIVE SeqsUpTo(_, _)
SeqsUpTo(S, n) ==
  IF n = 0 THEN {<<>>}
  ELSE LET shorter == SeqsUpTo(S, n - 1)
       IN shorter \cup {Append(s, x) : s \in {q \in shorter : Len(q) = n - 1}, x \in S}

\* a far-away profile, used to pad a list up to DIRECT_LIMIT entries
FarDescriptor == Desc(<<9, 9>>)
RECURSIVE PadTo(_, _)
PadTo(ds, n) == IF Len(ds) >= n THEN ds ELSE PadTo(Append(ds, FarDescriptor), n)

CandidateLists ==
  LET short == SeqsUpTo(CandidateDescriptors, MaxCandidates)
  IN {ProfilesOf(ds) : ds \in short}
     \cup {ProfilesOf(PadTo(ds, DIRECT_LIMIT)) :
             ds \in {q \in short : Len(q) \in 1..2}}

FindMatchingFace(which, target, ps, T, cores) ==
  IF which = "vercel" THEN VercelFindMatchingFace(target, ps, T)
  ELSE ServerFindMatchingFace(target, ps, T, cores)

InitMatch ==
  /\ fmImpl \in {"vercel", "server"}
  /\ cpuCores \in CoreCounts
  /\ fmImpl = "vercel" => cpuCores = 1
  /\ fmTarget \in {Desc(v) : v \in Targets}
  /\ fmProfiles \in CandidateLists
  /\ fmThreshold \in Thresholds
  /\ fmResult = NoMatch
  /\ fmDone = FALSE
  /\ fmScanned = FALSE
  /\ cmp = NoComparison
  /\ impl = "vercel"
  /\ ModuleLoaded
  /\ OauthIdle
  /\ DbEmpty

CallFindMatchingFace ==
  /\ ~fmDone
  /\ fmResult' = FindMatchingFace(fmImpl, fmTarget, fmProfiles, fmThreshold, cpuCores)
  /\ fmDone' = TRUE
  /\ fmScanned' = ~ReturnsAtOnce(fmTarget, fmProfiles)
  /\ UNCHANGED <<fmImpl, fmTarget, fmProfiles, fmThreshold, cmp>>
  /\ UNCHANGED <<exVars, dbVars, status, oauthVars, webVars, fileVars>>

NextMatch == CallFindMatchingFace

SpecMatch == InitMatch /\ [][NextMatch]_vars

-----------------------------------------------------------------------------
(***************************************************************************)
(* SpecCompare: one call of compareFaceDescriptors in each argument order, *)
(* on descriptors drawn from bounded sets.                                 *)
(***************************************************************************)
\* descriptors of 0, 1 and 2 components, some of 4 and 8 components, and
\* some of 5 and 9 components that take the unrolled loops into a second
\* pass
ShortDescriptors == SeqsUpTo({0, 3, 6}, 2)
LongDescriptors ==
  {<<0, 0, 0, 0>>, <<0, 3, 0, 3>>, <<0, 0, 0, 0, 0, 0, 0, 0>>, <<3, 0, 0, 3, 0, 0, 0, 3>>,
   <<0, 0, 0, 0, 0>>, <<0, 0, 0, 0, 3>>, <<3, 0, 0, 0, 0>>,
   <<0, 0, 0, 0, 0, 0, 0, 0, 0>>, <<0, 0, 0, 0, 0, 0, 0, 0, 3>>}
CompareDescriptors ==
  {Desc(v) : v \in ShortDescriptors \cup LongDescriptors} \cup {NoDescriptor}
CompareThresholds == {0, 3, 6}

InitCompare ==
  /\ cmp \in [which : {"server", "preload"},
                d1 : CompareDescriptors, d2 : CompareDescriptors,
                threshold : CompareThresholds,
                forward : {FALSE}, backward : {FALSE}, sum4 : {NaN}, sum8 : {NaN},
                done : {FALSE}]
  /\ FindUnused
  /\ cpuCores = 1
  /\ impl = "vercel"
  /\ ModuleLoaded
  /\ OauthIdle
  /\ DbEmpty

CallCompareFaceDescriptors ==
  /\ ~cmp.done
  /\ cmp' = [cmp EXCEPT
               !.forward = compareFaceDescriptors(cmp.which, cmp.d1, cmp.d2, cmp.threshold),
               !.backward = compareFaceDescriptors(cmp.which, cmp.d2, cmp.d1, cmp.threshold),
               !.sum4 = ServerSum(cmp.d1.v, cmp.d2.v, 0),
               !.sum8 = VercelSum(cmp.d1.v, cmp.d2.v, 0),
               !.done = TRUE]
  /\ UNCHANGED <<fmImpl, fmTarget, fmProfiles, fmThreshold, fmResult, fmDone, fmScanned>>
  /\ UNCHANGED <<exVars, dbVars, status, oauthVars, webVars, fileVars>>

NextCompare == CallCompareFaceDescriptors

SpecCompare == InitCompare /\ [][NextCompare]_vars

-----------------------------------------------------------------------------
(***************************************************************************)
(* The /verify handler: router.post('/verify') of the vercel-server        *)
(* (src/unnamed/part_001) and app.post('/face-auth/verify') of the server  *)
(* (src/unnamed/part_002), one action per stretch between two awaits.      *)
(***************************************************************************)
MATCH_THRESHOLD == 6
MaxRequests == 2

Actions == {"register", "authenticate"}
\* the images clients submit
RequestImages == {ImgA, ImgB, ImgC, ImgN}

handlerFrame == <<fmVars, impl, now, modelVars, cacheVars, img, awaiting,
                  loadOutcome, result, probeVars, cpuCores, status, oauthVars,
                  webVars>>

\* the handler of p moves on to its next await with locals r
HandlerStep(p, to, r) ==
  /\ pc' = [pc EXCEPT ![p] = to]
  /\ req' = [req EXCEPT ![p] = r]
  /\ UNCHANGED handlerFrame

Continue(p, to, r) == HandlerStep(p, to, r) /\ UNCHANGED fileVars

\* a handler that answers every outcome with 500
StatusAlways500(outcome) == 500

\* the HTTP status of each answer: the face-auth-error page is sent with
\* 400, the no-registered-faces, face-match-failed and client redirects
\* are 302, a missing user is 401, the outer catch answers 500
StatusOf(outcome) ==
  IF outcome \in {"noface", "errorpage"} THEN 400
  ELSE IF outcome \in {"noregistered", "nomatch", "success"} THEN 302
  ELSE IF outcome = "usernotfound" THEN 401
  ELSE 500

\* a handler that sends the face-auth-error page whatever happened
PageAlwaysError(outcome) == "face-auth-error.html"

\* what the answer carries: the page sent with sendFile, the path of a
\* redirect to a page of the identity provider, the client's redirect URI,
\* or a line of text
PageOf(outcome) ==
  IF outcome \in {"noface", "errorpage"} THEN "face-auth-error.html"
  ELSE IF outcome = "noregistered" THEN "/no-registered-faces.html"
  ELSE IF outcome = "nomatch" THEN "/face-match-failed.html"
  ELSE IF outcome = "success" THEN "redirectUri"
  ELSE IF outcome = "usernotfound" THEN "User not found for the authenticated face."
  ELSE "Authentication failed"

\* the handler of p answers
\* a handler that takes no request for a registration
IsRegisterNever(act) == FALSE

\* action === 'register'
IsRegister(act) == act = "register"

\* The server implementation is taken in its development configuration
\* (NODE_ENV !== 'production'), where handleImageUpload writes the image to
\* the uploads directory; the vercel-server implementation keeps no local
\* file.
LocalStorage == impl = "server"

\* res.redirect as the middleware wraps it: a file named by
\* req.session.tempFilePath that exists is unlinked and the path is dropped
\* from the session
RedirectUnlinks(p, outcome) ==
  /\ LocalStorage
  /\ StatusOf(outcome) = 302
  /\ tempFilePath[p] # 0
  /\ tempFilePath[p] \in files

\* the catch of the server handler: cleanupLocalImage(tempFilePath), on the
\* local variable the register branch set after the upload
CatchUnlinks(outcome, r) ==
  LocalStorage /\ outcome = "error500" /\ IsRegister(r.action) /\ r.uploaded

Respond(p, outcome, r) ==
  /\ HandlerStep(p, "idle", [r EXCEPT !.outcome = outcome,
                                      !.status = StatusOf(outcome),
                                      !.page = PageOf(outcome)])
  /\ IF RedirectUnlinks(p, outcome)
     THEN /\ files' = files \ {tempFilePath[p]}
          /\ tempFilePath' = [tempFilePath EXCEPT ![p] = 0]
     ELSE IF CatchUnlinks(outcome, r)
     THEN /\ files' = files \ {r.userId}
          /\ UNCHANGED tempFilePath
     ELSE UNCHANGED fileVars

\* req.session.userId = userId; req.session.authenticated = true
MarkSession(p, r) ==
  session' = [session EXCEPT ![p] =
                [authenticated |-> TRUE, userId |-> r.userId, by |-> r]]

\* The clients object (config/oauth.js, not among the sources): the
\* registered clients with their redirect URIs.
ClientA == "client-A"
ClientB == "client-B"
ClientX == "client-X"
UriA == "https://a.example/callback"
UriB == "https://b.example/callback"
UriEvil == "https://evil.example/callback"
NotAUrl == "not a url"
Undefined == "undefined"
RegisteredClients == {ClientA, ClientB}
RedirectUrisOf(c) == IF c = ClientA THEN {UriA} ELSE IF c = ClientB THEN {UriB} ELSE {}

\* The request field of the form, base64 of JSON.  GET /authorize renders
\* it for a registered client and one of its redirect URIs; the browser
\* posts back whatever it likes.
Blob(c, u) == [parses |-> TRUE, clientId |-> c, redirectUri |-> u]
AuthorizedBlob == Blob(ClientA, UriA)
MalformedBlob == [parses |-> FALSE, clientId |-> Undefined, redirectUri |-> Undefined]
Blobs == {AuthorizedBlob, Blob(ClientX, UriEvil), Blob(ClientA, NotAUrl),
          Blob(ClientA, Undefined), MalformedBlob}

\* new URL(redirectUri) does not throw
UrlParses(u) == u \in {UriA, UriB, UriEvil}

\* authCodeSchema: clientId and redirectUri are required
AuthCodeValid(c, u) == c # Undefined /\ u # Undefined

\* POST /verify up to the await of extractFaceDescriptor; a request field
\* that JSON.parse rejects goes to the outer catch at once
VerifyStart(p, i, act, blob) ==
  /\ Free(p)
  /\ calls < MaxRequests
  /\ calls' = calls + 1
  /\ IF blob.parses
     THEN /\ ExtractCallStep(p, i)
          /\ req' = [req EXCEPT ![p] = [NoRequest EXCEPT !.id = calls + 1,
                                                         !.usersAtStart = userDb,
                                                         !.action = act,
                                                         !.clientId = blob.clientId,
                                                         !.redirectUri = blob.redirectUri]]
     ELSE /\ req' = [req EXCEPT ![p] = [NoRequest EXCEPT !.id = calls + 1,
                                                         !.usersAtStart = userDb,
                                                         !.action = act,
                                                         !.outcome = "error500",
                                                         !.status = StatusOf("error500"),
                                                         !.page = PageOf("error500")]]
          /\ pc' = [pc EXCEPT ![p] = "idle"]
          /\ img' = [img EXCEPT ![p] = i]
          /\ result' = [result EXCEPT ![p] = NoResult]
          /\ UNCHANGED <<modelVars, cacheVars, awaiting, loadOutcome, ranPipeline,
                         returnedFor, returnedAt, cacheEpoch, prior>>
  /\ UNCHANGED <<impl, now, fmVars, cpuCores, faceProfileDb, userDb, authCodeDb,
                 session, nextUserId, status, oauthVars, webVars, fileVars>>

\* server: loadModels rejected inside extractFaceDescriptor, the rejection
\* reaches the handler's catch
ExtractThrew(p) ==
  /\ InRequest(p) /\ pc[p] = "returned"
  /\ result[p].kind = "throw"
  /\ Respond(p, "error500", req[p])
  /\ UNCHANGED <<faceProfileDb, userDb, authCodeDb, session, nextUserId>>

\* if (!faceDescriptor): the face-auth-error page
NoFaceDetected(p) ==
  /\ InRequest(p) /\ pc[p] = "returned"
  /\ result[p].kind = "null"
  /\ Respond(p, "noface", req[p])
  /\ UNCHANGED <<faceProfileDb, userDb, authCodeDb, session, nextUserId>>

\* a handler that goes on whatever extractFaceDescriptor returned
HasDescriptorOrNull(res) == res.kind \in {"descriptor", "null"}

\* the negation of if (!faceDescriptor)
HasDescriptor(res) == res.kind = "descriptor"

\* action === 'register': a fresh userId, then the image upload
BeginRegister(p) ==
  /\ InRequest(p) /\ pc[p] = "returned"
  /\ HasDescriptor(result[p])
  /\ IsRegister(req[p].action)
  /\ Continue(p, "upload", [req[p] EXCEPT !.faceDescriptor = result[p].d,
                                          !.userId = nextUserId])
  /\ nextUserId' = nextUserId + 1
  /\ UNCHANGED <<faceProfileDb, userDb, authCodeDb, session>>

\* any other action: FaceProfile.find
BeginAuthenticate(p) ==
  /\ InRequest(p) /\ pc[p] = "returned"
  /\ HasDescriptor(result[p])
  /\ ~IsRegister(req[p].action)
  /\ Continue(p, "findProfiles", [req[p] EXCEPT !.faceDescriptor = result[p].d])
  /\ UNCHANGED <<faceProfileDb, userDb, authCodeDb, session, nextUserId>>

\* the upload settled.  vercel: a failed Cloudinary upload is caught and the
\* handler goes on without a url.  server: handleImageUpload rejects into
\* the handler's catch.
UploadImage(p, ok) ==
  /\ pc[p] = "upload"
  /\ IF ok /\ LocalStorage
     THEN /\ HandlerStep(p, "saveProfile", [req[p] EXCEPT !.uploaded = TRUE])
          /\ files' = files \cup {req[p].userId}
          /\ tempFilePath' = [tempFilePath EXCEPT ![p] = req[p].userId]
     ELSE IF ok \/ impl = "vercel"
     THEN Continue(p, "saveProfile", [req[p] EXCEPT !.uploaded = ok])
     ELSE Respond(p, "error500", req[p])
  /\ UNCHANGED <<faceProfileDb, userDb, authCodeDb, session, nextUserId>>

\* faceProfile.save(): faceImagePath is required by the schema
SaveProfile(p) ==
  /\ pc[p] = "saveProfile"
  /\ IF req[p].uploaded
     THEN /\ faceProfileDb' = Append(faceProfileDb,
                 [userId |-> req[p].userId,
                  faceDescriptor |-> req[p].faceDescriptor,
                  image |-> img[p]])
          /\ Continue(p, "saveUser", req[p])
     ELSE /\ Respond(p, "errorpage", req[p])
          /\ UNCHANGED faceProfileDb
  /\ UNCHANGED <<userDb, authCodeDb, session, nextUserId>>

\* user.save(), then the session is marked and authCode.save() is awaited
SaveUser(p) ==
  /\ pc[p] = "saveUser"
  /\ userDb' = userDb \cup {req[p].userId}
  /\ MarkSession(p, req[p])
  /\ Continue(p, "saveCode", [req[p] EXCEPT !.marked = TRUE])
  /\ UNCHANGED <<faceProfileDb, authCodeDb, nextUserId>>

\* a handler that binds the session to the first profile of the list
FirstUserId(found, m) == found[1].userId

\* userId = matchResult.match.userId
MatchedUserId(found, m) == found[m.match].userId

\* FaceProfile.find resolved: the empty list redirects to
\* no-registered-faces, otherwise findMatchingFace runs at once.  vercel
\* passes 0.6, server relies on the default 0.6.  A falsy result redirects
\* to face-match-failed.  matchResult.match.userId is read next: when
\* matchResult is a bare profile, match is undefined and the read throws
\* into the catch.
FindProfiles(p) ==
  /\ pc[p] = "findProfiles"
  /\ LET found == faceProfileDb
         m == FindMatchingFace(impl, req[p].faceDescriptor, found,
                               MATCH_THRESHOLD, cpuCores)
         r == [req[p] EXCEPT !.faceProfiles = found]
     IN IF Len(found) = 0 THEN Respond(p, "noregistered", r)
        ELSE IF m.kind = "null"
             THEN Respond(p, "nomatch", [r EXCEPT !.matchResult = m])
        ELSE IF m.kind = "profile"
             THEN Respond(p, "error500", [r EXCEPT !.matchResult = m])
        ELSE Continue(p, "findUser", [r EXCEPT !.matchResult = m,
                                              !.userId = MatchedUserId(found, m)])
  /\ UNCHANGED <<faceProfileDb, userDb, authCodeDb, session, nextUserId>>

\* User.findOne resolved: 401 without a user, otherwise the session is
\* marked and authCode.save() is awaited
FindUser(p) ==
  /\ pc[p] = "findUser"
  /\ IF req[p].userId \in userDb
     THEN /\ MarkSession(p, req[p])
          /\ Continue(p, "saveCode", [req[p] EXCEPT !.marked = TRUE])
     ELSE /\ Respond(p, "usernotfound", req[p])
          /\ UNCHANGED session
  /\ UNCHANGED <<faceProfileDb, userDb, authCodeDb, nextUserId>>

\* the handler's answer when something throws inside the inner try.
\* vercel: the inner catch sends the face-auth-error page.  server: the
\* catch answers 500.
Caught == IF impl = "vercel" THEN "errorpage" ELSE "error500"

\* authCode.save() settled.  The code is a fresh random string, here the
\* number of the request.  A document without clientId or redirectUri fails
\* validation and the save rejects; otherwise the document is stored and
\* new URL(redirectUri) either throws or gives the redirect to the client
\* with the code.
SaveCode(p) ==
  /\ pc[p] = "saveCode"
  /\ LET c == req[p].id
     IN IF ~AuthCodeValid(req[p].clientId, req[p].redirectUri)
        THEN /\ Respond(p, Caught, req[p])
             /\ UNCHANGED authCodeDb
        ELSE /\ authCodeDb' = authCodeDb \cup
                   {[code |-> c, clientId |-> req[p].clientId, userId |-> req[p].userId,
                     redirectUri |-> req[p].redirectUri, request |-> req[p]]}
             /\ IF UrlParses(req[p].redirectUri)
                THEN Respond(p, "success", [req[p] EXCEPT !.code = c])
                ELSE Respond(p, Caught, [req[p] EXCEPT !.code = c])
  /\ UNCHANGED <<faceProfileDb, userDb, session, nextUserId>>

\* a database call rejects
AwaitRejects(p) ==
  /\ pc[p] \in {"saveProfile", "saveUser", "findProfiles", "findUser", "saveCode"}
  /\ Respond(p, Caught, req[p])
  /\ UNCHANGED <<faceProfileDb, userDb, authCodeDb, session, nextUserId>>

-----------------------------------------------------------------------------
(***************************************************************************)
(* Spec: the deployed service, /verify requests interleaved at their       *)
(* awaits.  The process starts with its module state fresh and with the    *)
(* collections as earlier runs left them: empty, one identity enrolled, or *)
(* as many as findMatchingFace needs to leave its direct path.             *)
(***************************************************************************)
\* the profile the register branch stores for userId u and image i
ProfileOf(u, i) == [userId |-> u, faceDescriptor |-> Pipeline(i), image |-> i]

\* n identities enrolled earlier: the first from ImgC, the others from ImgD
Enrolled(n) == [k \in 1..n |-> ProfileOf(k, IF k = 1 THEN ImgC ELSE ImgD)]

Init ==
  /\ impl \in {"vercel", "server"}
  /\ ModuleLoaded
  /\ OauthIdle
  /\ MatchUnused
  /\ cpuCores = 2
  /\ \E n \in {0, 1, DIRECT_LIMIT} :
        /\ faceProfileDb = Enrolled(n)
        /\ userDb = 1..n
        /\ nextUserId = n + 1
  /\ authCodeDb = {}
  /\ session = [p \in Procs |-> NoSession]
  /\ req = [p \in Procs |-> NoRequest]

Next ==
  \/ \E p \in Procs, i \in RequestImages, act \in Actions :
        VerifyStart(p, i, act, AuthorizedBlob)
  \/ \E p \in Procs : AfterLoadFailed(p)
  \/ \E p \in Procs : AfterLoadHit(p)
  \/ \E p \in Procs : AfterLoadMiss(p)
  \/ \E p \in Procs : AfterPipelineNoFace(p)
  \/ \E p \in Procs : AfterPipelineDescriptor(p)
  \/ \E id \in pendingLoads : LoadSucceeds(id)
  \/ \E id \in pendingLoads, loaded \in FailureCases : LoadFails(id, loaded)
  \/ Tick
  \/ \E p \in Procs : ExtractThrew(p)
  \/ \E p \in Procs : NoFaceDetected(p)
  \/ \E p \in Procs : BeginRegister(p)
  \/ \E p \in Procs : BeginAuthenticate(p)
  \/ \E p \in Procs, ok \in BOOLEAN : UploadImage(p, ok)
  \/ \E p \in Procs : SaveProfile(p)
  \/ \E p \in Procs : SaveUser(p)
  \/ \E p \in Procs : FindProfiles(p)
  \/ \E p \in Procs : FindUser(p)
  \/ \E p \in Procs : SaveCode(p)
  \/ \E p \in Procs : AwaitRejects(p)

Spec == Init /\ [][Next]_vars

-----------------------------------------------------------------------------
(***************************************************************************)
(* The token endpoint: router.post('/token') of the vercel-server          *)
(* (src/vercel-server/index.js) and app.post('/oauth/token') of the server *)
(* (src/unnamed/part_002), one action per stretch between two awaits.      *)
(* The ten minutes of an authorization code's life and the hour of a       *)
(* token's do not pass: expiresAt lies in the future throughout.           *)
(***************************************************************************)
MaxTokenRequests == 2

\* everything a /token, /revoke, /logout or delete-all-data step leaves
\* alone whatever it does
oauthFrame == <<fmVars, impl, now, modelVars, cacheVars, img, awaiting,
                loadOutcome, result, probeVars, cpuCores, status, req, nextUserId,
                webVars>>
tokenFrame == <<oauthFrame, fileVars>>

\* the answers of the token endpoint
TokenStatusOf(outcome) ==
  IF outcome = "tokens" THEN 200
  ELSE IF outcome = "invalid_client" THEN 401
  ELSE IF outcome \in {"invalid_grant", "unsupported_grant_type"} THEN 400
  ELSE 500

\* the /token handler of p moves on to its next await with locals t
TokenContinue(p, to, t) ==
  /\ pc' = [pc EXCEPT ![p] = to]
  /\ tokReq' = [tokReq EXCEPT ![p] = t]

\* the /token handler of p answers
TokenRespond(p, outcome, t) ==
  /\ TokenContinue(p, "idle", [t EXCEPT !.outcome = outcome,
                                        !.status = TokenStatusOf(outcome)])
  /\ exchanges' = IF outcome = "tokens"
                  THEN exchanges \cup {[id |-> t.id, grant |-> t.grant, code |-> t.code]}
                  ELSE exchanges

\* AuthCode.findOne({ code }) and Token.findOne({ token, isRefreshToken:
\* true }): the documents matching, one of which is handed over
FindAuthCode(code) == {d \in authCodeDb : d.code = code}
FindRefreshToken(tk) == {d \in tokenDb : d.token = tk /\ d.isRefreshToken}

\* POST /token up to its first await: the client is checked against the
\* clients object, then the grant type.  code stands for the code of an
\* authorization_code request and for the refresh_token of a refresh
\* request.
TokenStart(p, grant, code, client_id, secretOk, redirect_uri) ==
  /\ Free(p)
  /\ tokenCalls < MaxTokenRequests
  /\ tokenCalls' = tokenCalls + 1
  /\ LET t == [NoTokenRequest EXCEPT !.id = tokenCalls + 1, !.grant = grant,
                                     !.code = code, !.clientId = client_id,
                                     !.redirectUri = redirect_uri]
     IN IF client_id \notin RegisteredClients \/ ~secretOk
        THEN TokenRespond(p, "invalid_client", t)
        ELSE IF grant = "refresh_token"
             THEN TokenContinue(p, "refreshFind", t) /\ UNCHANGED exchanges
        ELSE IF grant # "authorization_code"
             THEN TokenRespond(p, "unsupported_grant_type", t)
        ELSE TokenContinue(p, "tokenFind", t) /\ UNCHANGED exchanges
  /\ UNCHANGED <<tokenFrame, faceProfileDb, userDb, authCodeDb, session, tokenDb, admin>>

\* AuthCode.findOne resolved: invalid_grant without a document or with one
\* of another client or redirect URI, otherwise AuthCode.deleteOne is
\* awaited
TokenFind(p) ==
  /\ pc[p] = "tokenFind"
  /\ LET found == FindAuthCode(tokReq[p].code)
     IN IF found = {}
        THEN TokenRespond(p, "invalid_grant", tokReq[p])
        ELSE LET authCodeData == CHOOSE d \in found : TRUE
             IN IF \/ authCodeData.clientId # tokReq[p].clientId
                   \/ authCodeData.redirectUri # tokReq[p].redirectUri
                THEN TokenRespond(p, "invalid_grant", tokReq[p])
                ELSE /\ TokenContinue(p, "tokenDelete",
                          [tokReq[p] EXCEPT !.authCodeData =
                             [code |-> authCodeData.code,
                              clientId |-> authCodeData.clientId,
                              userId |-> authCodeData.userId,
                              redirectUri |-> authCodeData.redirectUri]])
                     /\ UNCHANGED exchanges
  /\ UNCHANGED <<tokenFrame, faceProfileDb, userDb, authCodeDb, session, tokenDb,
                 tokenCalls, admin>>

\* AuthCode.deleteOne resolved, whether or not it found the document;
\* User.findOne is awaited
TokenDelete(p) ==
  /\ pc[p] = "tokenDelete"
  /\ authCodeDb' = {d \in authCodeDb : d.code # tokReq[p].code}
  /\ TokenContinue(p, "tokenUser", tokReq[p])
  /\ UNCHANGED <<tokenFrame, faceProfileDb, userDb, session, tokenDb, tokenCalls,
                 admin, exchanges>>

\* User.findOne resolved: a default user stands in for a missing one;
\* FaceProfile.findOne is awaited
TokenUser(p) ==
  /\ pc[p] = "tokenUser"
  /\ TokenContinue(p, "tokenProfile",
        [tokReq[p] EXCEPT !.userFound = tokReq[p].authCodeData.userId \in userDb])
  /\ UNCHANGED <<tokenFrame, faceProfileDb, userDb, authCodeDb, session, tokenDb,
                 tokenCalls, admin, exchanges>>

\* FaceProfile.findOne resolved: only the picture URL of the id token
\* depends on it; accessTokenDoc.save() is awaited
TokenProfile(p) ==
  /\ pc[p] = "tokenProfile"
  /\ TokenContinue(p, "tokenSaveAccess", tokReq[p])
  /\ UNCHANGED <<tokenFrame, faceProfileDb, userDb, authCodeDb, session, tokenDb,
                 tokenCalls, admin, exchanges>>

\* the two tokens of request number n: fresh random strings
AccessToken(n) == 2 * n - 1
RefreshToken(n) == 2 * n
TokenDoc(tk, u, c, refresh) ==
  [token |-> tk, userId |-> u, clientId |-> c, isRefreshToken |-> refresh]

\* accessTokenDoc.save() resolved; refreshTokenDoc.save() is awaited
TokenSaveAccess(p) ==
  /\ pc[p] = "tokenSaveAccess"
  /\ tokenDb' = tokenDb \cup {TokenDoc(AccessToken(tokReq[p].id),
                                       tokReq[p].authCodeData.userId,
                                       tokReq[p].clientId, FALSE)}
  /\ TokenContinue(p, "tokenSaveRefresh", tokReq[p])
  /\ UNCHANGED <<tokenFrame, faceProfileDb, userDb, authCodeDb, session, tokenCalls,
                 admin, exchanges>>

\* refreshTokenDoc.save() resolved: the tokens are returned
TokenSaveRefresh(p) ==
  /\ pc[p] = "tokenSaveRefresh"
  /\ tokenDb' = tokenDb \cup {TokenDoc(RefreshToken(tokReq[p].id),
                                       tokReq[p].authCodeData.userId,
                                       tokReq[p].clientId, TRUE)}
  /\ TokenRespond(p, "tokens", tokReq[p])
  /\ UNCHANGED <<tokenFrame, faceProfileDb, userDb, authCodeDb, session, tokenCalls,
                 admin>>

\* refresh grant, Token.findOne resolved: invalid_grant without a refresh
\* token document, otherwise Token.deleteOne is awaited
RefreshFind(p) ==
  /\ pc[p] = "refreshFind"
  /\ LET found == FindRefreshToken(tokReq[p].code)
     IN IF found = {}
        THEN TokenRespond(p, "invalid_grant", tokReq[p])
        ELSE LET refreshTokenDoc == CHOOSE d \in found : TRUE
             IN /\ TokenContinue(p, "refreshDelete",
                     [tokReq[p] EXCEPT !.authCodeData =
                        [NoCode EXCEPT !.userId = refreshTokenDoc.userId,
                                       !.clientId = refreshTokenDoc.clientId]])
                /\ UNCHANGED exchanges
  /\ UNCHANGED <<tokenFrame, faceProfileDb, userDb, authCodeDb, session, tokenDb,
                 tokenCalls, admin>>

\* Token.deleteOne resolved; the Promise.all of the two saves is awaited
RefreshDelete(p) ==
  /\ pc[p] = "refreshDelete"
  /\ tokenDb' = {d \in tokenDb : d.token # tokReq[p].code}
  /\ TokenContinue(p, "refreshSave", tokReq[p])
  /\ UNCHANGED <<tokenFrame, faceProfileDb, userDb, authCodeDb, session, tokenCalls,
                 admin, exchanges>>

\* both saves resolved: the new tokens are returned
RefreshSave(p) ==
  /\ pc[p] = "refreshSave"
  /\ tokenDb' = tokenDb \cup
        {TokenDoc(AccessToken(tokReq[p].id), tokReq[p].authCodeData.userId,
                  tokReq[p].clientId, FALSE),
         TokenDoc(RefreshToken(tokReq[p].id), tokReq[p].authCodeData.userId,
                  tokReq[p].clientId, TRUE)}
  /\ TokenRespond(p, "tokens", tokReq[p])
  /\ UNCHANGED <<tokenFrame, faceProfileDb, userDb, authCodeDb, session, tokenCalls,
                 admin>>

\* a database call of the authorization_code grant rejects: the catch
\* answers 500
TokenRejects(p) ==
  /\ pc[p] \in {"tokenFind", "tokenDelete", "tokenUser", "tokenProfile",
                "tokenSaveAccess", "tokenSaveRefresh"}
  /\ TokenRespond(p, "server_error", tokReq[p])
  /\ UNCHANGED <<tokenFrame, faceProfileDb, userDb, authCodeDb, session, tokenDb,
                 tokenCalls, admin>>

-----------------------------------------------------------------------------
(***************************************************************************)
(* /revoke, /logout and the admin's delete-all-data                        *)
(* (src/vercel-server/index.js, src/unnamed/part_009).                     *)
(***************************************************************************)
MaxWipes == 1

\* POST /revoke: Token.deleteOne({ token })
Revoke(tk) ==
  /\ \E d \in tokenDb : d.token = tk
  /\ tokenDb' = {d \in tokenDb : d.token # tk}
  /\ UNCHANGED <<tokenFrame, pc, faceProfileDb, userDb, authCodeDb, session, tokReq,
                 tokenCalls, admin, exchanges>>

\* GET /logout: req.session.destroy()
Logout(p) ==
  /\ session[p] # NoSession
  /\ session' = [session EXCEPT ![p] = NoSession]
  /\ tempFilePath' = [tempFilePath EXCEPT ![p] = 0]
  /\ UNCHANGED <<oauthFrame, pc, faceProfileDb, userDb, authCodeDb, oauthVars, files>>

\* the delete-all-data handler moves on to its next await
WipeStep(from, to) ==
  /\ admin.pc = from
  /\ admin' = [admin EXCEPT !.pc = to]
  /\ UNCHANGED <<tokenFrame, pc, session, tokReq, tokenCalls, exchanges>>

\* DELETE /delete-all-data with the admin token, up to FaceProfile.find
WipeStart ==
  /\ admin.pc = "idle"
  /\ admin.wipes < MaxWipes
  /\ admin' = [pc |-> "find", wipes |-> admin.wipes + 1]
  /\ UNCHANGED <<tokenFrame, pc, session, tokReq, tokenCalls, exchanges>>
  /\ UNCHANGED <<faceProfileDb, userDb, authCodeDb, tokenDb>>

\* FaceProfile.find and then the Cloudinary deletions of the images found
\* resolved; User.deleteMany is awaited
WipeFind ==
  /\ WipeStep("find", "users")
  /\ UNCHANGED <<faceProfileDb, userDb, authCodeDb, tokenDb>>

\* User.deleteMany({}) resolved
WipeUsers ==
  /\ WipeStep("users", "profiles")
  /\ userDb' = {}
  /\ UNCHANGED <<faceProfileDb, authCodeDb, tokenDb>>

\* FaceProfile.deleteMany({}) resolved
WipeProfiles ==
  /\ WipeStep("profiles", "tokens")
  /\ faceProfileDb' = <<>>
  /\ UNCHANGED <<userDb, authCodeDb, tokenDb>>

\* Token.deleteMany({}) resolved
WipeTokens ==
  /\ WipeStep("tokens", "codes")
  /\ tokenDb' = {}
  /\ UNCHANGED <<faceProfileDb, userDb, authCodeDb>>

\* AuthCode.deleteMany({}) resolved: 200
WipeCodes ==
  /\ WipeStep("codes", "idle")
  /\ authCodeDb' = {}
  /\ UNCHANGED <<faceProfileDb, userDb, tokenDb>>

\* one of the awaited calls rejects: the catch answers 500
WipeRejects ==
  /\ admin.pc # "idle"
  /\ WipeStep(admin.pc, "idle")
  /\ UNCHANGED <<faceProfileDb, userDb, authCodeDb, tokenDb>>

-----------------------------------------------------------------------------
(***************************************************************************)
(* GET /authorize, the same code in both implementations.                  *)
(***************************************************************************)
MaxAuthorizeRequests == 1

\* res.redirect(`${redirect_uri}?error=...`): the browser is sent to the
\* redirect_uri of the query
AuthorizeRedirect(client_id, redirect_uri, response_type) ==
  [n |-> authz.n + 1, client_id |-> client_id, redirect_uri |-> redirect_uri,
   response_type |-> response_type, answer |-> "redirect", to |-> redirect_uri]

\* res.send(renderedPage): the authorize page carrying the request blob
AuthorizePage(client_id, redirect_uri, response_type) ==
  [n |-> authz.n + 1, client_id |-> client_id, redirect_uri |-> redirect_uri,
   response_type |-> response_type, answer |-> "page", to |-> "none"]

Authorize(client_id, redirect_uri, response_type) ==
  /\ authz.n < MaxAuthorizeRequests
  /\ authz' =
       IF client_id \notin RegisteredClients
       THEN AuthorizeRedirect(client_id, redirect_uri, response_type)
       ELSE IF redirect_uri \notin RedirectUrisOf(client_id)
       THEN AuthorizeRedirect(client_id, redirect_uri, response_type)
       ELSE IF response_type # "code"
       THEN AuthorizeRedirect(client_id, redirect_uri, response_type)
       ELSE AuthorizePage(client_id, redirect_uri, response_type)
  /\ UNCHANGED <<fmVars, exVars, dbVars, status, oauthVars, fileVars,
                 bImpl, fa, bodies, bpc, bwait, bCalls>>

-----------------------------------------------------------------------------
(***************************************************************************)
(* The model loader of the browser pages: loadFaceApiModels,               *)
(* forceReloadModels and detectFaces over window.FaceAPI.  JavaScript runs *)
(* each of them to its next await in one step.                             *)
(***************************************************************************)
maxRetries == 3
MaxBrowserCalls == 2
MaxBodies == 6

browserFrame == <<fmVars, exVars, dbVars, status, oauthVars, fileVars, authz, bImpl>>

\* the body that starts for the call rooted at root (0: a call of the page,
\* which is its own root); it runs to its first await,
\* faceapi.nets.tinyFaceDetector.load
NewBody(bs, root) ==
  [stage |-> "detector", root |-> IF root = 0 THEN Len(bs) + 1 ELSE root,
   promise |-> "pending", follows |-> 0]

\* if (window.FaceAPI.modelLoadingPromise) return it
ReturnsPendingPromise(f) == f.modelLoadingPromise # 0

\* loadFaceApiModels() called in state f, bs: the state it leaves and the
\* promise it returns.  The unified loader returns a resolved promise when
\* faceDetectionReady is set.
LoadFaceApiModels(f, bs, root) ==
  IF ReturnsPendingPromise(f)
  THEN [fa |-> f, bodies |-> bs, returns |-> f.modelLoadingPromise]
  ELSE IF bImpl = "unified" /\ f.faceDetectionReady
  THEN [fa |-> f, bodies |-> bs, returns |-> 0]
  ELSE [fa |-> [f EXCEPT !.modelLoadingPromise = Len(bs) + 1],
        bodies |-> Append(bs, NewBody(bs, root)),
        returns |-> Len(bs) + 1]

\* forceReloadModels(): the state is reset, then loadFaceApiModels is called
ForceReloadModels(f, bs) ==
  LoadFaceApiModels(
     IF bImpl = "shared"
     THEN [f EXCEPT !.modelsLoaded = FALSE, !.faceDetectionReady = FALSE,
                    !.faceRecognitionReady = FALSE, !.modelLoadingPromise = 0,
                    !.loadRetries = 0]
     ELSE [f EXCEPT !.modelsLoaded = FALSE, !.faceDetectionReady = FALSE,
                    !.modelLoadingPromise = 0],
     bs, 0)

\* how promise b has settled, through the promises it was resolved with;
\* promise 0 is resolved
RECURSIVE PromiseState(_, _)
PromiseState(bs, b) ==
  IF b = 0 THEN "resolved"
  ELSE IF bs[b].promise = "follows" THEN PromiseState(bs, bs[b].follows)
  ELSE bs[b].promise

\* room for the bodies a step may start
RoomForBody == Len(bodies) < MaxBodies

\* the page calls loadFaceApiModels, as its DOMContentLoaded handler does
PageLoadsModels ==
  /\ bCalls < MaxBrowserCalls /\ RoomForBody
  /\ bCalls' = bCalls + 1
  /\ LET r == LoadFaceApiModels(fa, bodies, 0)
     IN fa' = r.fa /\ bodies' = r.bodies
  /\ UNCHANGED <<browserFrame, bpc, bwait>>

\* the page calls forceReloadModels
PageForceReloads ==
  /\ bCalls < MaxBrowserCalls /\ RoomForBody
  /\ bCalls' = bCalls + 1
  /\ LET r == ForceReloadModels(fa, bodies)
     IN fa' = r.fa /\ bodies' = r.bodies
  /\ UNCHANGED <<browserFrame, bpc, bwait>>

\* detectFaces(videoElement) up to its first await
DetectStart(p) ==
  /\ bpc[p] = "idle"
  /\ bCalls < MaxBrowserCalls /\ RoomForBody
  /\ bCalls' = bCalls + 1
  /\ IF ~fa.faceDetectionReady
     THEN LET r == LoadFaceApiModels(fa, bodies, 0)
          IN /\ fa' = r.fa /\ bodies' = r.bodies
             /\ bpc' = [bpc EXCEPT ![p] = "awaitLoad"]
             /\ bwait' = [bwait EXCEPT ![p] = r.returns]
     ELSE /\ bpc' = [bpc EXCEPT ![p] = "detect"]
          /\ UNCHANGED <<fa, bodies, bwait>>
  /\ UNCHANGED browserFrame

\* await loadFaceApiModels() settled: the shared loader returns [] when it
\* rejected, the unified one lets the rejection through
DetectLoadSettles(p) ==
  /\ bpc[p] = "awaitLoad"
  /\ PromiseState(bodies, bwait[p]) # "pending"
  /\ bpc' = [bpc EXCEPT ![p] = IF PromiseState(bodies, bwait[p]) = "resolved"
                                THEN "detect" ELSE "idle"]
  /\ bwait' = [bwait EXCEPT ![p] = 0]
  /\ UNCHANGED <<browserFrame, fa, bodies, bCalls>>

\* await faceapi.detectAllFaces settled.  When it rejected, the shared
\* loader resets faceDetectionReady and awaits forceReloadModels if the flag
\* was set; the unified one lets the rejection through.
DetectAllFaces(p, ok) ==
  /\ bpc[p] = "detect"
  /\ ok \/ RoomForBody
  /\ IF ~ok /\ bImpl = "shared" /\ fa.faceDetectionReady
     THEN LET r == ForceReloadModels(fa, bodies)
          IN /\ fa' = r.fa /\ bodies' = r.bodies
             /\ bpc' = [bpc EXCEPT ![p] = "awaitReload"]
             /\ bwait' = [bwait EXCEPT ![p] = r.returns]
     ELSE /\ bpc' = [bpc EXCEPT ![p] = "idle"]
          /\ UNCHANGED <<fa, bodies, bwait>>
  /\ UNCHANGED <<browserFrame, bCalls>>

\* await forceReloadModels() settled, either way: detectFaces returns []
DetectReloadSettles(p) ==
  /\ bpc[p] = "awaitReload"
  /\ PromiseState(bodies, bwait[p]) # "pending"
  /\ bpc' = [bpc EXCEPT ![p] = "idle"]
  /\ bwait' = [bwait EXCEPT ![p] = 0]
  /\ UNCHANGED <<browserFrame, fa, bodies, bCalls>>

\* tinyFaceDetector.load resolved: the shared loader sets
\* faceDetectionReady here; the other two nets are awaited next
BodyDetectorLoaded(b) ==
  /\ bodies[b].stage = "detector"
  /\ bodies' = [bodies EXCEPT ![b].stage = "rest"]
  /\ fa' = IF bImpl = "shared" THEN [fa EXCEPT !.faceDetectionReady = TRUE] ELSE fa
  /\ UNCHANGED <<browserFrame, bpc, bwait, bCalls>>

\* the other nets are loaded (and, in the shared loader, verified): the
\* flags are set and modelLoadingPromise is cleared.  The shared body
\* returns true; the unified one awaits the detector warm-up first.
BodyRestLoaded(b) ==
  /\ bodies[b].stage = "rest"
  /\ IF bImpl = "shared"
     THEN /\ fa' = [fa EXCEPT !.faceRecognitionReady = TRUE, !.modelsLoaded = TRUE,
                              !.modelLoadingPromise = 0]
          /\ bodies' = [bodies EXCEPT ![b].stage = "done", ![b].promise = "resolved"]
     ELSE /\ fa' = [fa EXCEPT !.modelsLoaded = TRUE, !.faceDetectionReady = TRUE,
                              !.modelLoadingPromise = 0]
          /\ bodies' = [bodies EXCEPT ![b].stage = "warmup"]
  /\ UNCHANGED <<browserFrame, bpc, bwait, bCalls>>

\* _warmupDetector settled, either way: resolve()
BodyWarmedUp(b) ==
  /\ bodies[b].stage = "warmup"
  /\ bodies' = [bodies EXCEPT ![b].stage = "done", ![b].promise = "resolved"]
  /\ UNCHANGED <<browserFrame, fa, bpc, bwait, bCalls>>

\* a load or the verification rejected: the catch clears
\* modelLoadingPromise.  The shared loader counts a retry and sleeps a
\* second while loadRetries < maxRetries, else it rethrows; the unified
\* loader rejects.
BodyFails(b) ==
  /\ bodies[b].stage \in {"detector", "rest"}
  /\ IF bImpl = "shared" /\ fa.loadRetries < maxRetries
     THEN /\ fa' = [fa EXCEPT !.modelLoadingPromise = 0,
                              !.loadRetries = fa.loadRetries + 1,
                              !.faceDetectionReady = FALSE,
                              !.faceRecognitionReady = FALSE]
          /\ bodies' = [bodies EXCEPT ![b].stage = "delay"]
     ELSE /\ fa' = [fa EXCEPT !.modelLoadingPromise = 0]
          /\ bodies' = [bodies EXCEPT ![b].stage = "done", ![b].promise = "rejected"]
  /\ UNCHANGED <<browserFrame, bpc, bwait, bCalls>>

\* the second has passed: return loadFaceApiModels(progressCallback), so
\* the promise of this body settles as the one that call returns
BodyRetries(b) ==
  /\ bodies[b].stage = "delay"
  /\ RoomForBody
  /\ LET r == LoadFaceApiModels(fa, bodies, bodies[b].root)
     IN /\ fa' = r.fa
        /\ bodies' = [r.bodies EXCEPT ![b].stage = "done", ![b].promise = "follows",
                                      ![b].follows = r.returns]
  /\ UNCHANGED <<browserFrame, bpc, bwait, bCalls>>

InitBrowser ==
  /\ bImpl \in {"shared", "unified"}
  /\ PageLoaded
  /\ TokenIdle /\ authz = NoAuthorize /\ NoFiles
  /\ impl = "vercel"
  /\ ModuleLoaded
  /\ MatchUnused
  /\ cpuCores = 1
  /\ DbEmpty

NextBrowser ==
  \/ PageLoadsModels
  \/ PageForceReloads
  \/ \E p \in Procs : DetectStart(p)
  \/ \E p \in Procs : DetectLoadSettles(p)
  \/ \E p \in Procs, ok \in BOOLEAN : DetectAllFaces(p, ok)
  \/ \E p \in Procs : DetectReloadSettles(p)
  \/ \E b \in 1..Len(bodies) : BodyDetectorLoaded(b)
  \/ \E b \in 1..Len(bodies) : BodyRestLoaded(b)
  \/ \E b \in 1..Len(bodies) : BodyWarmedUp(b)
  \/ \E b \in 1..Len(bodies) : BodyFails(b)
  \/ \E b \in 1..Len(bodies) : BodyRetries(b)

SpecBrowser == InitBrowser /\ [][NextBrowser]_vars

\* every attempt settles and every timer fires: the awaits of a body are
\* the loads of the nets, the verification or warm-up, and the one-second
\* delay
BodyProgress(b) ==
  /\ b <= Len(bodies)
  /\ \/ BodyDetectorLoaded(b)
     \/ BodyRestLoaded(b)
     \/ BodyWarmedUp(b)
     \/ BodyFails(b)
     \/ BodyRetries(b)

SpecBrowserFair == SpecBrowser /\ \A b \in 1..MaxBodies : WF_vars(BodyProgress(b))

-----------------------------------------------------------------------------
(***************************************************************************)
(* SpecOauth: the service after its warm-up, with one identity enrolled    *)
(* and one authorization code of that identity waiting to be exchanged:    *)
(* /verify requests with any request field, /token, /revoke and /logout    *)
(* requests and the admin's delete-all-data, interleaved at their awaits.  *)
(***************************************************************************)
\* the images submitted here: the face enrolled, and no face
OauthImages == {ImgC}

\* the state loadModels leaves behind when its load has succeeded
WarmedUp ==
  /\ modelsLoaded = TRUE
  /\ modelLoadingPromise = 0
  /\ lastModelLoadTime = 0
  /\ now = 0
  /\ pendingLoads = {}
  /\ loadStarts = 1
  /\ loadsSettled = 1
  /\ modelCache = ModelCacheKeys
  /\ netsLoaded = Nets
  /\ status = NoStatus
  /\ descriptorCache = <<>>
  /\ cacheAccessOrder = <<>>
  /\ pc = [p \in Procs |-> "idle"]
  /\ img = [p \in Procs |-> ImgA]
  /\ awaiting = [p \in Procs |-> 0]
  /\ loadOutcome = [p \in Procs |-> "none"]
  /\ result = [p \in Procs |-> NoResult]
  /\ calls = 0
  /\ ranPipeline = [p \in Procs |-> FALSE]
  /\ returnedFor = [i \in Images |-> NoDescriptor]
  /\ returnedAt = [i \in Images |-> 0]
  /\ cacheEpoch = 0
  /\ prior = [p \in Procs |-> NoPrior]

\* the code an earlier authenticate request of the enrolled identity stored
\* for the registered client
OldCode == 9
OldAuthCode ==
  [code |-> OldCode, clientId |-> ClientA, userId |-> 1, redirectUri |-> UriA,
   request |-> [NoRequest EXCEPT !.id = OldCode, !.action = "authenticate",
                                 !.clientId = ClientA, !.redirectUri = UriA,
                                 !.userId = 1, !.code = OldCode]]

InitOauth ==
  /\ impl \in {"vercel", "server"}
  /\ WarmedUp
  /\ OauthIdle
  /\ MatchUnused
  /\ cpuCores = 2
  /\ faceProfileDb = Enrolled(1)
  /\ userDb = {1}
  /\ nextUserId = 2
  /\ authCodeDb = {OldAuthCode}
  /\ session = [p \in Procs |-> NoSession]
  /\ req = [p \in Procs |-> NoRequest]

\* the /token requests clients make: the well-formed one of the registered
\* client, and one for each thing that can be wrong with it
TokenForm(g, c, ok, u) == [grant |-> g, clientId |-> c, secretOk |-> ok, redirectUri |-> u]
TokenForms ==
  {TokenForm("authorization_code", ClientA, TRUE, UriA),
   TokenForm("authorization_code", ClientA, TRUE, UriEvil),
   TokenForm("authorization_code", ClientA, FALSE, UriA),
   TokenForm("authorization_code", ClientX, TRUE, UriEvil),
   TokenForm("password", ClientA, TRUE, UriA),
   TokenForm("refresh_token", ClientA, TRUE, UriA),
   TokenForm("refresh_token", ClientB, TRUE, UriB)}

\* what a /token request may present: the code of a /verify request made so
\* far, or a refresh token
AllTokens == {AccessToken(n) : n \in 1..MaxTokenRequests}
               \cup {RefreshToken(n) : n \in 1..MaxTokenRequests}
Presentable(grant) ==
  IF grant = "refresh_token" THEN {d.token : d \in {e \in tokenDb : e.isRefreshToken}}
  ELSE (1..calls) \cup {OldCode}

\* the /verify requests followed here, next to the other requests: with
\* one, the descriptor cache is empty when it is looked up
MaxOauthVerifies == 1

NextOauth ==
  \/ \E p \in Procs, i \in OauthImages, act \in Actions, blob \in Blobs :
        calls < MaxOauthVerifies /\ VerifyStart(p, i, act, blob)
  \/ \E p \in Procs : AfterLoadMiss(p)
  \/ \E p \in Procs : AfterPipelineDescriptor(p)
  \/ \E p \in Procs : BeginRegister(p)
  \/ \E p \in Procs : BeginAuthenticate(p)
  \/ \E p \in Procs, ok \in BOOLEAN : UploadImage(p, ok)
  \/ \E p \in Procs : SaveProfile(p)
  \/ \E p \in Procs : SaveUser(p)
  \/ \E p \in Procs : FindProfiles(p)
  \/ \E p \in Procs : FindUser(p)
  \/ \E p \in Procs : SaveCode(p)
  \/ \E p \in Procs : AwaitRejects(p)
  \/ \E p \in Procs : Logout(p)
  \/ \E c \in {ClientA, ClientX}, u \in {UriA, UriEvil}, t \in {"code", "token"} :
        Authorize(c, u, t)
  \/ WipeStart
  \/ WipeFind
  \/ WipeUsers
  \/ WipeProfiles
  \/ WipeTokens
  \/ WipeCodes
  \/ WipeRejects

SpecOauth == InitOauth /\ [][NextOauth]_vars

NextToken ==
  \/ \E p \in Procs, f \in TokenForms :
        \E code \in Presentable(f.grant) :
           TokenStart(p, f.grant, code, f.clientId, f.secretOk, f.redirectUri)
  \/ \E p \in Procs : TokenFind(p)
  \/ \E p \in Procs : TokenDelete(p)
  \/ \E p \in Procs : TokenUser(p)
  \/ \E p \in Procs : TokenProfile(p)
  \/ \E p \in Procs : TokenSaveAccess(p)
  \/ \E p \in Procs : TokenSaveRefresh(p)
  \/ \E p \in Procs : RefreshFind(p)
  \/ \E p \in Procs : RefreshDelete(p)
  \/ \E p \in Procs : RefreshSave(p)
  \/ \E p \in Procs : TokenRejects(p)
  \/ \E tk \in AllTokens : Revoke(tk)
  \/ WipeStart
  \/ WipeFind
  \/ WipeUsers
  \/ WipeProfiles
  \/ WipeTokens
  \/ WipeCodes
  \/ WipeRejects

SpecToken == InitOauth /\ [][NextToken]_vars

-----------------------------------------------------------------------------
(***************************************************************************)
(* Reference values for the claims about findMatchingFace.                 *)
(***************************************************************************)
\* the plain squared Euclidean distance, NaN when p is shorter than t
RECURSIVE PlainSum(_, _, _)
PlainSum(t, p, j) ==
  IF j >= Len(t) THEN 0 ELSE Plus(SqDiff(t, p, j), PlainSum(t, p, j + 1))

\* candidates that have a descriptor the query can be measured against
Measurable(t, ps) ==
  {k \in 1..Len(ps) : /\ ps[k].faceDescriptor.present
                      /\ IsNum(PlainSum(t.v, ps[k].faceDescriptor.v, 0))}
DistTo(t, ps, k) == PlainSum(t.v, ps[k].faceDescriptor.v, 0)

IsMatch(r) == r.kind # "null"

\* C2: a returned match is a candidate at the minimum distance over the
\* whole list, and the reported distance is that minimum.
C2_MatchIsNearest ==
  (fmDone /\ IsMatch(fmResult)) =>
     /\ fmResult.match \in Measurable(fmTarget, fmProfiles)
     /\ \A k \in Measurable(fmTarget, fmProfiles) :
           DistTo(fmTarget, fmProfiles, fmResult.match) <= DistTo(fmTarget, fmProfiles, k)
     /\ fmResult.distance = DistTo(fmTarget, fmProfiles, fmResult.match)

\* C3: a match is returned exactly when the minimum distance to the
\* candidates that have a descriptor is <= threshold; a returned distance
\* never exceeds the threshold.
C3_MatchIffWithinThreshold ==
  fmDone =>
     /\ IsMatch(fmResult) <=>
          \E k \in Measurable(fmTarget, fmProfiles) :
             DistTo(fmTarget, fmProfiles, k) <= fmThreshold * fmThreshold
     /\ IsMatch(fmResult) => WithinThreshold(fmResult.distance, fmThreshold)

\* C4: with a positive threshold and a candidate whose descriptor equals the
\* query, the vercel-server findMatchingFace returns a match at distance 0.
C4_ExactCandidateGivesZero ==
  (/\ fmDone
   /\ fmImpl = "vercel"
   /\ fmThreshold > 0
   /\ \E k \in 1..Len(fmProfiles) : fmProfiles[k].faceDescriptor = fmTarget)
  => (fmResult.kind = "object" /\ fmResult.distance = 0)

-----------------------------------------------------------------------------
(***************************************************************************)
(* The /verify handler and the identities it binds.                        *)
(***************************************************************************)
\* the locals r are those of a request whose findMatchingFace call returned
\* a match object for r.faceDescriptor over r.faceProfiles, and r.userId is
\* the userId of the matched profile
MatchedRequest(r) ==
  /\ r.matchResult.kind = "object"
  /\ r.matchResult = FindMatchingFace(impl, r.faceDescriptor, r.faceProfiles,
                                      MATCH_THRESHOLD, cpuCores)
  /\ r.matchResult.match \in 1..Len(r.faceProfiles)
  /\ r.userId = r.faceProfiles[r.matchResult.match].userId

\* C1: outside the register action, the session is marked authenticated and
\* an authorization code is stored only by a request whose findMatchingFace
\* call returned a match for the descriptor extracted from that request's
\* image, with the userId of the matched profile; a request answered with
\* no-face or no-match has stored no code and has not marked the session.
C1_CodeOnlyOnMatch ==
  /\ \A c \in authCodeDb :
        c.request.action # "register" =>
           MatchedRequest(c.request) /\ c.userId = c.request.userId
  /\ \A p \in Procs :
        (session[p].authenticated /\ session[p].by.action # "register") =>
           MatchedRequest(session[p].by) /\ session[p].userId = session[p].by.userId
  /\ \A p \in Procs :
        (req[p].action # "register" /\ (req[p].marked \/ req[p].code # 0)) =>
           /\ MatchedRequest(req[p])
           /\ result[p] = Returned(req[p].faceDescriptor)
  /\ \A p \in Procs :
        req[p].outcome \in {"noface", "nomatch"} =>
           /\ req[p].code = 0
           /\ ~req[p].marked
           /\ \A c \in authCodeDb : c.request.id # req[p].id

\* an authenticate request has been answered with a code, and another one
\* was turned away
C1_Witness ==
  \E p, q \in Procs :
     /\ req[p].action = "authenticate" /\ req[p].outcome = "success"
     /\ req[p].code # 0 /\ session[p].authenticated
     /\ req[q].action = "authenticate" /\ req[q].outcome = "nomatch"

\* the squared distance between the descriptors the pipeline computes for
\* two images, NaN when one of them shows no face
TrueDistance(i, j) ==
  IF Pipeline(i).present /\ Pipeline(j).present
  THEN PlainSum(Pipeline(i).v, Pipeline(j).v, 0)
  ELSE NaN

\* C5: an authenticate request with the image of an identity that had been
\* enrolled from it before the request arrived, answered with success or
\* no-match, is answered with success, bound to an identity enrolled from
\* that image, at distance 0, whatever else is enrolled.
C5_SameImageAuthenticates ==
  \A p \in Procs :
     (/\ req[p].action = "authenticate"
      /\ req[p].outcome \in {"success", "nomatch"}
      /\ \E k \in 1..Len(req[p].faceProfiles) :
            /\ req[p].faceProfiles[k].image = img[p]
            /\ req[p].faceProfiles[k].userId \in req[p].usersAtStart)
     => /\ req[p].outcome = "success"
        /\ req[p].matchResult.distance = 0
        /\ \E k \in 1..Len(req[p].faceProfiles) :
              /\ req[p].faceProfiles[k].image = img[p]
              /\ req[p].faceProfiles[k].userId = req[p].userId

\* C6: an authenticate request with an image showing a face is never
\* answered with success as an identity whose enrolment image has a
\* descriptor farther than 0.6 from the descriptor of the submitted image,
\* whatever was submitted before.
C6_StrangerNeverAuthenticates ==
  \A p \in Procs :
     (/\ req[p].action = "authenticate"
      /\ req[p].outcome = "success"
      /\ Pipeline(img[p]).present) =>
        \A k \in 1..Len(req[p].faceProfiles) :
           req[p].faceProfiles[k].userId = req[p].userId =>
              WithinThreshold(TrueDistance(img[p], req[p].faceProfiles[k].image),
                              MATCH_THRESHOLD)

-----------------------------------------------------------------------------
(***************************************************************************)
(* extractFaceDescriptor and its cache.                                    *)
(***************************************************************************)
\* C7: a call with an image in which the detector finds no face never
\* returns a descriptor, whatever was extracted before.
C7_NoFaceGivesNull ==
  \A p \in Procs :
     (pc[p] = "returned" /\ ~Pipeline(img[p]).present) =>
        result[p].kind # "descriptor"

\* C8: the cache is a pure memoization: a call that returns a descriptor
\* returns the one the pipeline computes for its image, and a call whose
\* model load succeeded returns null only for an image without a face.
C8_CacheIsMemoization ==
  \A p \in Procs :
     pc[p] = "returned" =>
        /\ result[p].kind = "descriptor" => result[p].d = Pipeline(img[p])
        /\ (result[p].kind = "null" /\ loadOutcome[p] # "failed") =>
              ~Pipeline(img[p]).present

\* the call of p returned what had been returned for its image before,
\* without running detection and embedding
RepeatedFromCache(p) ==
  /\ result[p] = Returned(prior[p].d)
  /\ ~ranPipeline[p]

-----------------------------------------------------------------------------
(***************************************************************************)
(* loadModels.  A load is the Promise.all over the three nets; it is in    *)
(* flight from the call that starts it until that promise settles.         *)
(***************************************************************************)
\* C10: at most one load is in flight; it is the one modelLoadingPromise
\* stands for, every caller waiting for a load waits for that one, and
\* until a load has settled no second one is started.
C10_OneLoadInFlight ==
  /\ Cardinality(pendingLoads) <= 1
  /\ pendingLoads = IF modelLoadingPromise = 0 THEN {} ELSE {modelLoadingPromise}
  /\ \A p \in Procs : awaiting[p] # 0 => awaiting[p] = modelLoadingPromise
  /\ loadsSettled = 0 => loadStarts <= 1

\* two callers wait for the one load started from the not-loaded state
C10_Witness ==
  /\ ~modelsLoaded
  /\ loadStarts = 1
  /\ \A p \in Procs : awaiting[p] = modelLoadingPromise /\ awaiting[p] # 0

-----------------------------------------------------------------------------
(***************************************************************************)
(* loadModels and checkModels, over the three implementations (SpecLoad).  *)
(***************************************************************************)
\* C11: model loading is all-or-nothing: modelsLoaded is true, and a
\* loadModels call has reported success to its caller, only when the
\* detector, the landmark model and the embedding model have all loaded.
C11_LoadAllOrNothing ==
  /\ modelsLoaded => netsLoaded = Nets
  /\ \A p \in Procs : loadOutcome[p] = "ok" => netsLoaded = Nets

\* a step in which the underlying load id fails
LoadFailedStep(id) ==
  /\ id \in pendingLoads
  /\ id \notin pendingLoads'
  /\ \E p \in Procs : awaiting[p] = id /\ loadOutcome'[p] = "failed"

\* C12: when an underlying load of the vercel-server loadModels fails, every
\* caller awaiting it gets the error, checkModels then reports loaded =
\* false, loading = false and isValid = false, and the next loadModels
\* call starts a fresh load.
C12_FailedLoadResets ==
  [][\A id \in pendingLoads :
        (impl = "vercel" /\ LoadFailedStep(id)) =>
           /\ \A p \in Procs : awaiting[p] = id => loadOutcome'[p] = "failed"
           /\ ~CheckModelsReport'.loaded
           /\ ~CheckModelsReport'.loading
           /\ ~CheckModelsReport'.isValid
           /\ LoadModelsBranch' = "start"]_vars

\* a step in which loadModels is called: in the vercel-server
\* implementation every call counted begins with it
LoadModelsStep == calls' = calls + 1
\* a step in which a new underlying load is started
StartsLoad == loadStarts' = loadStarts + 1
\* the models were last loaded MODEL_VALIDITY_DURATION or longer ago
Stale == now - lastModelLoadTime >= MODEL_VALIDITY_DURATION
\* the models are loaded and within the validity window
LoadedAndFresh == modelsLoaded /\ ~Stale
\* a step in which the underlying load id succeeds
LoadSucceededStep(id) ==
  /\ id \in pendingLoads
  /\ id \notin pendingLoads'
  /\ \E p \in Procs : awaiting[p] = id /\ loadOutcome'[p] = "ok"

\* C13: the vercel-server loadModels starts an underlying load exactly when
\* none is in flight and the models are not loaded or stale; with loaded,
\* still valid models it returns at once, starts no load and leaves the
\* model state alone; after a successful refresh of stale models the state
\* is valid again.
C13_LoadsExactlyWhenNeeded ==
  [][impl = "vercel" =>
       /\ StartsLoad <=> (/\ LoadModelsStep
                          /\ pendingLoads = {}
                          /\ (~modelsLoaded \/ Stale))
       /\ (LoadModelsStep /\ modelsLoaded /\ ~Stale) =>
             /\ UNCHANGED modelVars
             /\ \E p \in Procs : pc'[p] # pc[p] /\ loadOutcome'[p] = "ok"
       /\ \A id \in pendingLoads :
             (LoadSucceededStep(id) /\ modelsLoaded /\ Stale) => LoadedAndFresh']_vars

\* a health check saw loaded, stale models, and they are valid again: a
\* refresh has succeeded
C13_Witness ==
  /\ impl = "vercel"
  /\ status.loaded /\ ~status.isValid
  /\ LoadedAndFresh
  /\ loadStarts = 2 /\ loadsSettled = 2
  /\ \E p \in Procs : pc[p] = "warmup" /\ loadOutcome[p] = "ok"

\* C15: a checkModels call leaves modelsLoaded, the load in flight and
\* lastModelLoadTime as they are and starts no load, and it reports
\* isValid = true only when the models are loaded and were last loaded less
\* than MODEL_VALIDITY_DURATION ago.
C15_CheckModelsOnlyReads ==
  [][status' # status =>
       /\ UNCHANGED <<modelsLoaded, modelLoadingPromise, lastModelLoadTime,
                      pendingLoads, loadStarts>>
       /\ status'.loaded = modelsLoaded
       /\ status'.isValid => (modelsLoaded /\ ~Stale)]_vars

\* checkModels was called during the refresh of stale models, which is
\* still in flight
C15_Witness ==
  /\ status.loaded /\ status.loading /\ ~status.isValid
  /\ modelsLoaded /\ pendingLoads # {}

-----------------------------------------------------------------------------
(***************************************************************************)
(* extractFaceDescriptor when the models are unavailable.                  *)
(***************************************************************************)
\* C14: a call of extractFaceDescriptor whose loadModels failed ends with
\* that error thrown to its caller, not with the null of an image without
\* a face.
C14_LoadFailurePropagates ==
  [][\A p \in Procs :
        (pc[p] = "awaitLoad" /\ loadOutcome[p] = "failed" /\ pc'[p] = "returned")
        => result'[p] = Threw]_vars

-----------------------------------------------------------------------------
(***************************************************************************)
(* The descriptor cache.                                                   *)
(***************************************************************************)
\* the stated capacity: CACHE_SIZE_LIMIT (vercel), 100 (server), 'limit to
\* 50 entries' (preload)
CacheCapacity == IF impl = "preload" THEN PRELOAD_CACHE_LIMIT ELSE CACHE_SIZE_LIMIT

\* C16: the descriptor cache never holds more entries than its stated
\* capacity.
C16_CacheWithinCapacity == Len(descriptorCache) <= CacheCapacity

\* the keys a cache holds, and the elements of a recency list
KeySet(c) == {c[n].key : n \in 1..Len(c)}
Range(order) == {order[n] : n \in 1..Len(order)}

\* A reference LRU cache of capacity cap, as the list of its keys from the
\* least to the most recently used: a read or write of a key it holds
\* moves the key to the end, the insert of a new key into a full cache
\* drops the head first.
LruTouch(order, k) == Append(SelectSeq(order, LAMBDA x : x # k), k)
LruInsert(order, k, cap) ==
  IF k \in Range(order) THEN LruTouch(order, k)
  ELSE IF Len(order) >= cap THEN Append(Tail(order), k)
  ELSE Append(order, k)

\* steps of the vercel-server extractFaceDescriptor by caller p: the cached
\* descriptor is returned; a computed descriptor is inserted
CacheHitStep(p) ==
  pc[p] = "awaitLoad" /\ pc'[p] = "returned" /\ result'[p].kind = "descriptor"
CacheInsertStep(p) ==
  pc[p] = "pipeline" /\ pc'[p] = "returned" /\ result'[p].kind = "descriptor"

\* C17: the vercel-server cache behaves as a reference LRU cache of the same
\* capacity: every hit and every insert takes the recency order and the
\* set of cached keys to what the reference cache has after the same
\* operation, so an evicted entry is the least recently used one and
\* nothing else is ever dropped.
C17_CacheIsLru ==
  [][impl = "vercel" =>
       \A p \in Procs :
          /\ CacheHitStep(p) =>
                /\ cacheAccessOrder' = LruTouch(cacheAccessOrder, CacheKey(img[p]))
                /\ KeySet(descriptorCache') = Range(cacheAccessOrder')
          /\ CacheInsertStep(p) =>
                /\ cacheAccessOrder' =
                      LruInsert(cacheAccessOrder, CacheKey(img[p]), CACHE_SIZE_LIMIT)
                /\ KeySet(descriptorCache') = Range(cacheAccessOrder')]_vars

-----------------------------------------------------------------------------
(***************************************************************************)
(* The /verify handler: what a request does before and instead of the      *)
(* match search.                                                           *)
(***************************************************************************)
\* the request of p got null from extractFaceDescriptor
GotNoDescriptor(p) == req[p].action # "none" /\ result[p].kind = "null"

\* the request of p has not issued FaceProfile.find, has no list of
\* profiles and no result of findMatchingFace
NoMatchSearch(p) ==
  /\ pc[p] \notin {"findProfiles", "findUser"}
  /\ req[p].faceProfiles = <<>>
  /\ req[p].matchResult = NoMatch
  /\ req[p].outcome \notin {"noregistered", "nomatch", "usernotfound"}

\* C18: an authenticate request whose extraction gave no descriptor ends in
\* the no-face outcome; it never reads the enrolled profiles and never
\* calls findMatchingFace.
C18_NoFaceSkipsMatchSearch ==
  \A p \in Procs :
     (GotNoDescriptor(p) /\ req[p].action = "authenticate") =>
        /\ req[p].outcome \in {"none", "noface"}
        /\ pc[p] = "idle" <=> req[p].outcome = "noface"
        /\ ~req[p].faceDescriptor.present
        /\ NoMatchSearch(p)

\* with identities enrolled, an authenticate request with a faceless image
\* was answered no-face
C18_Witness ==
  \E p \in Procs :
     /\ req[p].action = "authenticate"
     /\ ~Pipeline(img[p]).present
     /\ GotNoDescriptor(p)
     /\ req[p].outcome = "noface"
     /\ Len(faceProfileDb) > 0

\* C19: a register request never reads the enrolled profiles and never
\* calls findMatchingFace; once it has a descriptor it is on the way of
\* upload, profile save and user save, under an id no user or profile had
\* before.
C19_RegisterSkipsMatchSearch ==
  \A p \in Procs :
     req[p].action = "register" =>
        /\ NoMatchSearch(p)
        /\ pc[p] \in {"awaitLoad", "pipeline", "returned", "upload", "saveProfile",
                      "saveUser", "saveCode", "idle"}
        /\ req[p].faceDescriptor.present =>
              /\ req[p].userId # 0
              /\ req[p].userId \notin req[p].usersAtStart
              /\ \A q \in Procs \ {p} :
                    req[q].action = "register" => req[q].userId # req[p].userId
              /\ Cardinality({n \in 1..Len(faceProfileDb) :
                                faceProfileDb[n].userId = req[p].userId}) <= 1

\* with identities enrolled, a register request has stored its profile and
\* its user and ended in success
C19_Witness ==
  \E p \in Procs :
     /\ req[p].action = "register"
     /\ req[p].outcome = "success"
     /\ req[p].usersAtStart # {}
     /\ req[p].userId \in userDb
     /\ \E n \in 1..Len(faceProfileDb) : faceProfileDb[n].userId = req[p].userId

\* C20: a register request whose extraction gave no descriptor ends in the
\* no-face outcome with a status below 500 and stores nothing: it never
\* gets a user id, never reaches the upload or a save, stores no
\* authorization code and does not mark the session.
C20_RegisterNoFaceStoresNothing ==
  \A p \in Procs :
     (GotNoDescriptor(p) /\ req[p].action = "register") =>
        /\ req[p].outcome \in {"none", "noface"}
        /\ pc[p] = "idle" <=> req[p].outcome = "noface"
        /\ req[p].outcome = "noface" => req[p].status \in 200..499
        /\ pc[p] \in {"returned", "idle"}
        /\ req[p].userId = 0 /\ ~req[p].uploaded /\ ~req[p].marked /\ req[p].code = 0
        /\ \A c \in authCodeDb : c.request.id # req[p].id
        /\ session[p].by.id # req[p].id
        /\ \A n \in 1..Len(faceProfileDb) : faceProfileDb[n].userId # req[p].userId
        /\ req[p].userId \notin userDb

\* a register request with a faceless image was answered no-face
C20_Witness ==
  \E p \in Procs :
     /\ req[p].action = "register"
     /\ ~Pipeline(img[p]).present
     /\ GotNoDescriptor(p)
     /\ req[p].outcome = "noface"
     /\ req[p].status = 400

-----------------------------------------------------------------------------
(***************************************************************************)
(* The /verify handler: the answers the caller sees.                       *)
(***************************************************************************)
\* what the caller sees of the answer to request r
Response(r) == <<r.status, r.page>>

\* the request of p was an authenticate request with a descriptor whose
\* match search found no enrolled identity: findMatchingFace returned null
\* or there was no profile to search
SearchFoundNone(p) ==
  /\ req[p].action = "authenticate"
  /\ req[p].faceDescriptor.present
  /\ req[p].outcome \in {"nomatch", "noregistered"}

\* C21: an authenticate request with a descriptor for which findMatchingFace
\* returned null is answered with the redirect to the face-match-failed
\* page, and the answer to a request whose match search found no identity
\* is never the answer given to a request whose extraction gave no
\* descriptor.
C21_NoMatchDistinctFromNoFace ==
  /\ \A p \in Procs :
        (/\ req[p].action = "authenticate"
         /\ pc[p] = "idle"
         /\ req[p].faceDescriptor.present
         /\ Len(req[p].faceProfiles) > 0
         /\ FindMatchingFace(impl, req[p].faceDescriptor, req[p].faceProfiles,
                             MATCH_THRESHOLD, cpuCores) = NoMatch)
        => /\ req[p].outcome = "nomatch"
           /\ Response(req[p]) = <<302, "/face-match-failed.html">>
  /\ \A p, q \in Procs :
        (SearchFoundNone(p) /\ GotNoDescriptor(q) /\ req[q].outcome = "noface")
        => Response(req[p]) # Response(req[q])

\* one request was answered no-match and another one no-face
C21_Witness ==
  \E p, q \in Procs :
     /\ SearchFoundNone(p) /\ req[p].outcome = "nomatch"
     /\ Len(req[p].faceProfiles) > 0
     /\ GotNoDescriptor(q) /\ req[q].outcome = "noface"

\* C22: every answered /verify request got one of three answers: the
\* face-auth-error page of face-not-detected, the redirect to the
\* face-match-failed page, or the redirect to the client with an
\* authorization code.
C22_ThreeOutcomes ==
  \A p \in Procs :
     (req[p].action # "none" /\ req[p].outcome # "none") =>
        \/ Response(req[p]) = <<400, "face-auth-error.html">>
        \/ Response(req[p]) = <<302, "/face-match-failed.html">>
        \/ Response(req[p]) = <<302, "redirectUri">> /\ req[p].code # 0

-----------------------------------------------------------------------------
(***************************************************************************)
(* findMatchingFace: the empty list, candidates without a usable           *)
(* descriptor, ties, the threshold.                                        *)
(***************************************************************************)
\* C23: for an empty candidate list findMatchingFace returns null, for
\* every query descriptor and every threshold, from its first statement:
\* it does not enter the search and computes no distance.
C23_EmptyListGivesNoMatch ==
  (fmDone /\ Len(fmProfiles) = 0) => (fmResult = NoMatch /\ ~fmScanned)

\* a call on the empty list has returned
C23_Witness ==
  /\ fmDone
  /\ Len(fmProfiles) = 0
  /\ fmTarget.present
  /\ fmResult = NoMatch

\* the list ps without its k-th candidate
RemoveAt(ps, k) == SubSeq(ps, 1, k - 1) \o SubSeq(ps, k + 1, Len(ps))

\* a result as its caller sees it: its shape, the matched profile's userId
\* and the distance
ResultView(r, ps) ==
  [kind |-> r.kind,
   userId |-> IF r.kind = "null" THEN 0 ELSE ps[r.match].userId,
   distance |-> r.distance]

\* candidate k of the call has no descriptor the query can be measured
\* against: none, an empty one, or one shorter than the query
Unusable(k) == k \in (1..Len(fmProfiles)) \ Measurable(fmTarget, fmProfiles)

\* C24: a candidate without a usable descriptor is never the match
\* returned, and the call returns what it returns for the list without
\* that candidate.
C24_UnusableCandidateSkipped ==
  fmDone =>
     \A k \in 1..Len(fmProfiles) :
        Unusable(k) =>
           /\ IsMatch(fmResult) => fmResult.match # k
           /\ ResultView(fmResult, fmProfiles) =
                 ResultView(FindMatchingFace(fmImpl, fmTarget, RemoveAt(fmProfiles, k),
                                             fmThreshold, cpuCores),
                            RemoveAt(fmProfiles, k))

\* the candidates of the call at the minimum distance from the query
Nearest ==
  {k \in Measurable(fmTarget, fmProfiles) :
     \A j \in Measurable(fmTarget, fmProfiles) :
        DistTo(fmTarget, fmProfiles, k) <= DistTo(fmTarget, fmProfiles, j)}

\* the first of a non-empty set of positions
First(S) == CHOOSE k \in S : \A j \in S : k <= j

\* C25: when several candidates are at the minimum distance from the query,
\* a call that returns a match returns the first of them in list order,
\* whether or not the list is split into batches.
C25_TieGoesToFirst ==
  (fmDone /\ IsMatch(fmResult) /\ Cardinality(Nearest) >= 2) =>
     fmResult.match = First(Nearest)

\* C26: findMatchingFace is monotone in the threshold: a call that returns a
\* match returns a match too at every larger threshold, for the same query
\* and candidate list.
C26_MonotoneInThreshold ==
  (fmDone /\ IsMatch(fmResult)) =>
     \A t2 \in Thresholds :
        fmThreshold <= t2 =>
           IsMatch(FindMatchingFace(fmImpl, fmTarget, fmProfiles, t2, cpuCores))

\* a match at the smaller threshold, and another candidate matched at the
\* larger one
C26_Witness ==
  /\ fmDone
  /\ IsMatch(fmResult)
  /\ \E t2 \in Thresholds :
        /\ fmThreshold < t2
        /\ LET r2 == FindMatchingFace(fmImpl, fmTarget, fmProfiles, t2, cpuCores)
           IN IsMatch(r2) /\ r2.match # fmResult.match

-----------------------------------------------------------------------------
(***************************************************************************)
(* compareFaceDescriptors: symmetry.                                       *)
(***************************************************************************)
\* C27: for two descriptors of equal length and any threshold,
\* compareFaceDescriptors gives the same answer in both argument orders.
C27_CompareSymmetric ==
  (cmp.done /\ cmp.d1.present /\ cmp.d2.present /\ Len(cmp.d1.v) = Len(cmp.d2.v)) =>
     cmp.forward = cmp.backward

\* two different descriptors of equal length, found to match in both orders
C27_Witness ==
  /\ cmp.done
  /\ cmp.d1.present /\ cmp.d2.present
  /\ Len(cmp.d1.v) = Len(cmp.d2.v)
  /\ cmp.d1 # cmp.d2
  /\ cmp.forward /\ cmp.backward

-----------------------------------------------------------------------------
(***************************************************************************)
(* The life of a face profile.                                             *)
(***************************************************************************)
\* the stored profiles of user u
ProfilesFor(u) == {k \in 1..Len(faceProfileDb) : faceProfileDb[k].userId = u}

\* request p was a register request and has been answered otherwise than by
\* the redirect that carries the code
RegisterFailed(p) ==
  IsRegister(req[p].action) /\ req[p].outcome \notin {"none", "success"}

\* faceProfileDb gains exactly one profile, saved by a register request
ProfileAdded ==
  \E p \in Procs :
     /\ IsRegister(req[p].action)
     /\ Len(faceProfileDb') = Len(faceProfileDb) + 1
     /\ SubSeq(faceProfileDb', 1, Len(faceProfileDb)) = faceProfileDb
     /\ faceProfileDb'[Len(faceProfileDb')].userId = req[p].userId

\* faceProfileDb is emptied by delete-all-data
ProfilesWiped == admin.pc = "profiles" /\ faceProfileDb' = <<>>

\* C28: a face profile is created only by a successful register request, is
\* never rewritten once saved, and is removed only by delete-all-data.
C28_ProfileLifecycle ==
  /\ [](\A p \in Procs : RegisterFailed(p) => ProfilesFor(req[p].userId) = {})
  /\ [][faceProfileDb' # faceProfileDb => (ProfileAdded \/ ProfilesWiped)]_vars

-----------------------------------------------------------------------------
(***************************************************************************)
(* The token endpoint: one exchange per authorization code.                *)
(***************************************************************************)
\* the token requests that were answered with tokens for code c
ExchangesOf(c) == {e \in exchanges : e.grant = "authorization_code" /\ e.code = c}

\* C29: an authorization code is exchanged for tokens at most once, among
\* sequential and among concurrent token requests presenting it.
C29_CodeExchangedOnce ==
  \A e1, e2 \in exchanges : e1 \in ExchangesOf(e2.code) => e1 = e2

-----------------------------------------------------------------------------
(***************************************************************************)
(* /verify: the client and the redirect URI of the request blob.           *)
(***************************************************************************)
\* redirect URI u is registered for client c
Registered(c, u) == c \in RegisteredClients /\ u \in RedirectUrisOf(c)

\* C30: every authorization code /verify stores carries a registered client
\* and a redirect URI registered for it, and the browser is redirected with
\* the code only to such a URI, whatever request blob is submitted.
C30_CodeOnlyForRegisteredClient ==
  /\ \A c \in authCodeDb : Registered(c.clientId, c.redirectUri)
  /\ \A p \in Procs :
        req[p].outcome = "success" => Registered(req[p].clientId, req[p].redirectUri)

-----------------------------------------------------------------------------
(***************************************************************************)
(* GET /authorize: where the browser is sent.                              *)
(***************************************************************************)
\* C31: the authorize endpoint redirects the browser only to a redirect_uri
\* registered for the client of the request; a request naming an unknown
\* client or an unregistered redirect_uri is never redirected to the URI it
\* supplies.
C31_AuthorizeRedirectsToRegisteredUri ==
  authz.answer = "redirect" => Registered(authz.client_id, authz.to)

-----------------------------------------------------------------------------
(***************************************************************************)
(* The refresh_token grant and the client of a token.                      *)
(***************************************************************************)
\* request p was a refresh_token grant answered with tokens
Refreshed(p) == tokReq[p].grant = "refresh_token" /\ tokReq[p].outcome = "tokens"

\* C32: a refresh_token grant succeeds only for the client the refresh token
\* was issued to, and every stored token carries the clientId of the grant
\* it descends from (here the authorization code issued to OldAuthCode's
\* client).
C32_RefreshOnlyForIssuedClient ==
  /\ \A p \in Procs : Refreshed(p) => tokReq[p].authCodeData.clientId = tokReq[p].clientId
  /\ \A d \in tokenDb : d.clientId = OldAuthCode.clientId

-----------------------------------------------------------------------------
(***************************************************************************)
(* The server handler and the shape of findMatchingFace's result.          *)
(***************************************************************************)
\* the handler of p got a match from findMatchingFace
HandlerMatched(p) == req[p].action # "none" /\ IsMatch(req[p].matchResult)

\* C33: in the server implementation a match is always an object with match
\* and distance, whatever the number of enrolled profiles, so the handler
\* that got a match never fails on reading it.
C33_ServerResultIsObject ==
  \A p \in Procs :
     (impl = "server" /\ HandlerMatched(p)) =>
        /\ req[p].matchResult.kind = "object"
        /\ req[p].userId = req[p].faceProfiles[req[p].matchResult.match].userId

-----------------------------------------------------------------------------
(***************************************************************************)
(* Face profiles and their users.                                          *)
(***************************************************************************)
\* the stored profiles whose user is not stored
Orphans == {k \in 1..Len(faceProfileDb) : faceProfileDb[k].userId \notin userDb}

\* C34: every stored face profile has a stored user with the same id, and
\* no request is answered 'User not found for the authenticated face'.
C34_ProfileHasUser ==
  /\ Orphans = {}
  /\ \A p \in Procs : req[p].outcome # "usernotfound"

-----------------------------------------------------------------------------
(***************************************************************************)
(* The enrollment image of the server implementation.                      *)
(***************************************************************************)
\* request p was a register request answered with the redirect that carries
\* the code
Registered302(p) == IsRegister(req[p].action) /\ req[p].outcome = "success"

\* C35: with local image storage, after a register request has ended in
\* success the image file of the new profile and user still exists.
C35_EnrollmentImageKept ==
  \A p \in Procs : (LocalStorage /\ Registered302(p)) => req[p].userId \in files

-----------------------------------------------------------------------------
(***************************************************************************)
(* The unrolled distance loops.                                            *)
(***************************************************************************)
\* the comparison was made on two descriptors of equal length
EqualLengths ==
  cmp.done /\ cmp.d1.present /\ cmp.d2.present /\ Len(cmp.d1.v) = Len(cmp.d2.v)

\* C38: for two vectors of equal length, the 4-way and the 8-way unrolled
\* loop reach the sum of squared component differences a plain loop
\* reaches, also for lengths that are no multiple of 4 or 8 and for length 0.
C38_UnrolledSumsArePlainSum ==
  EqualLengths =>
     /\ cmp.sum4 = PlainSum(cmp.d1.v, cmp.d2.v, 0)
     /\ cmp.sum8 = PlainSum(cmp.d1.v, cmp.d2.v, 0)

\* two different vectors of nine components, a length that is no multiple
\* of 4 or 8, differing in the last one
C38_Witness ==
  /\ EqualLengths
  /\ Len(cmp.d1.v) = 9
  /\ cmp.d1.v[9] # cmp.d2.v[9]
  /\ cmp.sum4 > 0 /\ cmp.sum8 > 0

-----------------------------------------------------------------------------
(***************************************************************************)
(* The vercel-server descriptor cache and its access order.                *)
(***************************************************************************)
\* the keys of the Map in insertion order
KeysInOrder(c) == [n \in 1..Len(c) |-> c[n].key]

\* C39: in the vercel-server implementation cacheAccessOrder lists each key
\* of descriptorCache exactly once and no other key, and no cached value is
\* a null extraction result.
C39_AccessOrderMatchesCache ==
  impl = "vercel" =>
     /\ Range(cacheAccessOrder) = KeySet(descriptorCache)
     /\ Len(cacheAccessOrder) = Cardinality(KeySet(descriptorCache))
     /\ \A n \in 1..Len(descriptorCache) : descriptorCache[n].value.present

\* a full cache after more inserts than it has room for, with an access
\* order that a hit has moved away from the insertion order
C39_Witness ==
  /\ impl = "vercel"
  /\ Len(descriptorCache) = CACHE_SIZE_LIMIT
  /\ cacheEpoch > CACHE_SIZE_LIMIT
  /\ cacheAccessOrder # KeysInOrder(descriptorCache)

-----------------------------------------------------------------------------
(***************************************************************************)
(* The browser loader: loads in flight and retries.                        *)
(***************************************************************************)
\* the bodies whose underlying load has started and not settled
InFlight == {b \in 1..Len(bodies) : bodies[b].stage \in {"detector", "rest"}}

\* C36: in the browser model loader at most one model load is in flight at
\* any time, whatever the interleaving of loadFaceApiModels,
\* forceReloadModels and detectFaces calls.
C36_OneBrowserLoadInFlight == Cardinality(InFlight) <= 1

\* the underlying load attempts made for the call that started body r
Attempts(r) == Cardinality({b \in 1..Len(bodies) : bodies[b].root = r})

\* every promise loadFaceApiModels has returned is settled
AllSettled == \A b \in 1..Len(bodies) : PromiseState(bodies, b) # "pending"

\* C37: in the shared loader loadRetries never exceeds maxRetries, a
\* loadFaceApiModels call makes at most maxRetries + 1 load attempts, and,
\* every attempt settling, the call eventually settles (as far as the bodies
\* followed here allow a retry to start).
C37_RetriesBounded ==
  /\ [](bImpl = "shared" =>
          /\ fa.loadRetries <= maxRetries
          /\ \A r \in 1..Len(bodies) : Attempts(r) <= maxRetries + 1)
  /\ <>[](bImpl = "shared" => (AllSettled \/ ~RoomForBody))

=============================================================================
